---- MODULE Spec2Model ----
(***************************************************************************)
(* State-machine model of the worker of danbooru-ml-classifier: job         *)
(* claiming, generation retries, the inference server and the batch        *)
(* drivers.                                                                *)
(*                                                                         *)
(*   SpecClaim  worker/main.py: onImageCreated and the claim transaction   *)
(*              update_status_processing, run by two invocations against   *)
(*              one shared `images` collection.                            *)
(*   SpecChat   worker/vlm_captioner.py: chat_with_image_llama_api, the    *)
(*              repetition retry loop of one generation call.              *)
(*   SpecServer worker/vlm_captioner.py: start_llama_server,               *)
(*              wait_for_server and stop_server on one server process.     *)
(*   SpecRun    worker/vlm_captioner.py: run_vlm_captioner and its two     *)
(*              batch drivers.                                             *)
(*   SpecBackfill  worker/backfill_age_estimation.py: run_backfill.        *)
(*   SpecBackfillFair  the same, with run_backfill taking every step it    *)
(*              can (termination).                                         *)
(*   SpecStore  two savers writing result slots of one document.           *)
(*   SpecPixai  worker/backfill_pixai_tags.py: backfill_pixai_tags and     *)
(*              its SIGINT handler.                                        *)
(*   SpecMaxImages  one call of run_backfill or of backfill_pixai_tags.    *)
(*   SpecTwitter  worker/scripts/backfill_twitter_source.py:               *)
(*              backfill_twitter_source_data and its batch writes.         *)
(*   SpecDetect worker/vlm_utils.py: detect_repetition_loop on strings     *)
(*              of characters.                                             *)
(*   SpecParse  worker/vlm_utils.py: parse_moderation_rating.              *)
(*                                                                         *)
(* Each specification moves only its own variables; the variables of the   *)
(* others stay at their initial values.                                    *)
(***************************************************************************)
EXTENDS Integers, Sequences, FiniteSets, TLC

(***************************************************************************)
(* Bounds and program constants                                            *)
(***************************************************************************)

\* Number of documents the `images` collection can hold in the model.
NumImages == 3

\* main.py:182 `if pending_count < 100`. The threshold is scaled from 100 to
\* 2 so that a backlog of NumImages documents can reach it.
Threshold == 2

\* Documents of the collection, in the order a query streams them.
Images == 1..NumImages

\* The invocations of onImageCreated that may overlap in time.
Invocations == {"inv1", "inv2"}

VARIABLES
    \* ---- worker/main.py ------------------------------------------------
    status,                    \* images/{id}.status; "absent" = not created
    pc,                        \* position of each invocation in onImageCreated
    pending_count,             \* local: result of the count query
    pending_images,            \* local: batch returned by the transaction
    processing_image_ids,      \* local: keys seen as processing after claiming
    new_processing_images,     \* local: second query for processing documents
    idx,                       \* local: position of the running for loop
    image_id,                  \* local: key of the last item looked at; 0 = unbound
    \* history of what each invocation did (not read by the program)
    txStarted,                 \* the invocation created a transaction
    written,                   \* documents whose status the invocation updated
    inferredBy,                \* per document: invocations that ran inference on it
    pendingSeen,               \* the pending set read by the count query; emptied
                               \* when a document is created after the query
    \* ---- worker/vlm_captioner.py: chat_with_image_llama_api ------------
    chat_pc,                   \* position in the call
    max_retries,               \* argument: number of attempts
    attempt,                   \* loop variable of `for attempt in range(...)`
    sent,                      \* request_data of every request issued so far
    responses,                 \* what came back for each request, in order
    last_content,              \* message content of the latest 200 response
    chat_result                \* the value returned by the call

VARIABLES
    \* ---- worker/vlm_captioner.py: start_llama_server, wait_for_server,
    \*      stop_server (one server, from start to stop) -----------------
    srv_pc,                    \* position in start / wait / stop
    process,                   \* the Popen handle: "None", or the state of the
                               \* process behind it: "alive", "exited"
    wait_timeout,              \* wait_for_server: the timeout argument (seconds)
    wait_elapsed,              \* wait_for_server: time.time() - start_time
    polls,                     \* wait_for_server: the health polls made so far
    wait_result,               \* wait_for_server: the value returned
    stop_waited,               \* stop_server: seconds spent in process.wait(10)
    stop_log                   \* stop_server: the steps performed, in order

VARIABLES
    \* ---- worker/vlm_captioner.py: run_vlm_captioner and its two batch
    \*      drivers, process_images_with_joycaption / _with_minicpm -------
    run_pc,                    \* position in run_vlm_captioner
    next_driver,               \* index in DriverOrder of the next `if`
    models,                    \* the models argument
    generate_explanation,      \* the generate_explanation argument
    model_key,                 \* the driver being run ("None" outside one)
    drv_pc,                    \* position in the driver
    drv_exit,                  \* how the driver leaves its try block
    server_process,            \* per model: the process the driver started
    stop_calls,                \* per model: stop_server calls on that process
    exits,                     \* per model: how the driver has returned
    item,                      \* index of image_path in image_paths
    requests,                  \* generation requests issued: <<model, item, stage>>
    failed,                    \* <<model, item>> whose generation returned None
    saved,                     \* slots written by save_to_firestore: <<model, item, slot>>
    doc_status,                \* per item: the status field of its document
    wait_returned              \* per model: what wait_for_server returned

VARIABLES
    \* ---- worker/backfill_age_estimation.py: run_backfill ----------------
    bf_pc,                     \* position in run_backfill
    caption_model,             \* the caption_model argument
    age_model,                 \* the age_model argument
    batch_size,                \* the batch_size argument
    max_images,                \* the max_images argument; 0 stands for None
    captions,                  \* per document: captions[caption_model] exists
    ageEstimations,            \* per document and model key: the slot stored
    images,                    \* the batch returned by the selection query
    fetch_limit,               \* the limit the batch was fetched with
    doc,                       \* index in images of the document in hand
    total_processed,           \* the counter of run_backfill
    bf_server_process,         \* the process run_backfill started
    bf_exit,                   \* how run_backfill left its try block
    parse_failed               \* documents whose raw output did not parse

VARIABLES
    \* ---- save_to_firestore, save_pixai_tags_to_firestore and
    \*      process_image_age_estimation writing one document --------------
    document,                  \* per slot <<map, model key>>: the value stored
    saver_pc,                  \* per saver: position in its save function
    saver_key,                 \* per saver: the model key it persists for
    existing_data,             \* per saver: the document as doc_ref.get() saw it
    next_value                 \* the next result to be persisted

VARIABLES
    \* ---- worker/backfill_pixai_tags.py: backfill_pixai_tags --------------
    px_pc,                     \* position in backfill_pixai_tags
    image_file,                \* index i of image_path in image_files
    shutdown_requested,        \* the global _shutdown_requested
    skip_existing,             \* the skip_existing argument
    px_max_images,             \* the max_images argument; 0 stands for None
    processed_count,           \* the counter of backfill_pixai_tags
    tags,                      \* per file: the slot tags.pixai of its document
    file_outcome,              \* per file: how the loop body ended for it
    interrupts,                \* SIGINTs received so far
    signal_item,               \* the file in hand at the first SIGINT; 0 = none
    tagger_closed              \* tagger.close() has run

VARIABLES
    \* ---- worker/scripts/backfill_twitter_source.py -----------------------
    tw_pc,                     \* position in backfill_twitter_source_data
    tw_args,                   \* the arguments dry_run, limit and batch_size
    tw_docs,                   \* per document of the query: its kind
    tw_processed,              \* processed_count: documents taken from docs
    tw_batch,                  \* the documents queued in the current batch
    updated_count,             \* the counter updated_count
    source,                    \* per document: its field `source` in the store
    commits                    \* the batches committed so far, in order

VARIABLES
    \* ---- worker/vlm_utils.py: detect_repetition_loop ---------------------
    detect_text,               \* the argument text: None or a string
    detect_args,               \* the arguments min_length and threshold
    detect_result,             \* the returned triple, once returned
    found_at                   \* which loop returned, and at which index i

VARIABLES
    \* ---- worker/vlm_utils.py: parse_moderation_rating --------------------
    raw_result,                \* the argument raw_result, a string
    rating                     \* the returned rating, once returned

workerVars == <<status, pc, pending_count, pending_images, processing_image_ids,
                new_processing_images, idx, image_id,
                txStarted, written, inferredBy, pendingSeen>>

chatVars == <<chat_pc, max_retries, attempt, sent, responses, last_content,
              chat_result>>

srvVars == <<srv_pc, process, wait_timeout, wait_elapsed, polls, wait_result,
             stop_waited, stop_log>>

runVars == <<run_pc, next_driver, models, generate_explanation, model_key,
             drv_pc, drv_exit,
             server_process, stop_calls, exits, item, requests, failed, saved,
             doc_status, wait_returned>>

bfVars == <<bf_pc, caption_model, age_model, batch_size, max_images, captions,
            ageEstimations, images, fetch_limit, doc, total_processed,
            bf_server_process, bf_exit, parse_failed>>

storeVars == <<document, saver_pc, saver_key, existing_data, next_value>>

pxVars == <<px_pc, image_file, shutdown_requested, skip_existing, px_max_images,
            processed_count, tags, file_outcome, interrupts, signal_item,
            tagger_closed>>

twVars == <<tw_pc, tw_args, tw_docs, tw_processed, tw_batch, updated_count,
            source, commits>>

detVars == <<detect_text, detect_args, detect_result, found_at>>

parseVars == <<raw_result, rating>>

vars == <<workerVars, chatVars, srvVars, runVars, bfVars, storeVars, pxVars,
          twVars, detVars, parseVars>>

\* Frames: everything outside one part of the model.
nonWorkerVars == <<chatVars, srvVars, runVars, bfVars, storeVars, pxVars,
                   twVars, detVars, parseVars>>
nonChatVars == <<workerVars, srvVars, runVars, bfVars, storeVars, pxVars,
                 twVars, detVars, parseVars>>
nonSrvVars == <<workerVars, chatVars, runVars, bfVars, storeVars, pxVars,
                twVars, detVars, parseVars>>
nonRunVars == <<workerVars, chatVars, srvVars, bfVars, storeVars, pxVars,
                twVars, detVars, parseVars>>
nonBfVars == <<workerVars, chatVars, srvVars, runVars, storeVars, pxVars,
               twVars, detVars, parseVars>>
nonStoreVars == <<workerVars, chatVars, srvVars, runVars, bfVars, pxVars,
                  twVars, detVars, parseVars>>
nonPxVars == <<workerVars, chatVars, srvVars, runVars, bfVars, storeVars,
               twVars, detVars, parseVars>>
nonTwVars == <<workerVars, chatVars, srvVars, runVars, bfVars, storeVars,
               pxVars, detVars, parseVars>>
nonDetVars == <<workerVars, chatVars, srvVars, runVars, bfVars, storeVars,
                pxVars, twVars, parseVars>>
nonParseVars == <<workerVars, chatVars, srvVars, runVars, bfVars, storeVars,
                  pxVars, twVars, detVars>>

(***************************************************************************)
(* Helpers                                                                 *)
(***************************************************************************)

Range(s) == {s[k] : k \in 1..Len(s)}

Min(a, b) == IF a < b THEN a ELSE b

MinOf(S) == CHOOSE x \in S : \A y \in S : x <= y

\* A query result: the matching documents in document order.
RECURSIVE Stream(_)
Stream(S) == IF S = {} THEN <<>>
             ELSE LET m == MinOf(S) IN <<m>> \o Stream(S \ {m})

(***************************************************************************)
(* worker/main.py                                                          *)
(***************************************************************************)

\* .where(status == s): the documents of the collection with status s.
WhereStatus(st, s) == {i \in Images : st[i] = s}

\* Variant of BelowThreshold: the comparison is off by one.
BelowThresholdOffByOne(count) == count < Threshold - 1

\* main.py:182: the accumulate-before-processing check.
BelowThreshold(count) == count < Threshold

\* Variant of FlipToProcessing: the batch is returned but no status is
\* updated.
FlipNothing(st, batch) == st

\* Variant of FlipToProcessing: only the first document of the batch is
\* updated.
FlipFirstOnly(st, batch) ==
    [i \in Images |-> IF batch # {} /\ i = MinOf(batch) THEN "processing"
                                                        ELSE st[i]]

\* main.py:164-167: the transaction's updates, applied at commit.
FlipToProcessing(st, batch) ==
    [i \in Images |-> IF i \in batch THEN "processing" ELSE st[i]]

\* Variant of UpdateError: a failed item is released back to pending.
UpdateErrorReleases(st, i) == [st EXCEPT ![i] = "pending"]

\* main.py:198-200, 212-214, 232-234, 248-250: image.reference.update(error).
UpdateError(st, i) == [st EXCEPT ![i] = "error"]

\* main.py:217-221, 253-257: image.reference.update(inferred, ...).
UpdateInferred(st, i) == [st EXCEPT ![i] = "inferred"]

\* Outcomes of download_image: a temp-file path, or None for a blob that is
\* not an image (downloader.py:26-30). download_images (main.py:193, 227)
\* computes the whole list before the loop; each entry is read once, by the
\* loop iteration of its item, and is drawn there (the image_path parameter
\* of the loop actions).
DownloadResults == {"path", "None"}

\* Outcomes of infer_image_preference: the inference dict, or None when the
\* file cannot be opened as an image (main.py:129-133).
InferResults == {"inferences", "None"}

InitWorker ==
    /\ status = [i \in Images |-> "absent"]
    /\ pc = [p \in Invocations |-> "start"]
    /\ pending_count = [p \in Invocations |-> 0]
    /\ pending_images = [p \in Invocations |-> <<>>]
    /\ processing_image_ids = [p \in Invocations |-> {}]
    /\ new_processing_images = [p \in Invocations |-> <<>>]
    /\ idx = [p \in Invocations |-> 1]
    /\ image_id = [p \in Invocations |-> 0]
    /\ txStarted = [p \in Invocations |-> FALSE]
    /\ written = [p \in Invocations |-> {}]
    /\ inferredBy = [i \in Images |-> {}]
    /\ pendingSeen = [p \in Invocations |-> {}]

locals == <<pending_count, pending_images, processing_image_ids,
            new_processing_images, idx, image_id>>

\* A document is created in images/ with status pending (the event that
\* triggers onImageCreated).
CreateImage(i) ==
    /\ status[i] = "absent"
    /\ status' = [status EXCEPT ![i] = "pending"]
    /\ pendingSeen' = [p \in Invocations |-> {}]
    /\ UNCHANGED <<pc, locals, txStarted, written, inferredBy>>
    /\ UNCHANGED nonWorkerVars

\* main.py:179-183: count the pending documents; return below the threshold.
CountPending(p) ==
    /\ pc[p] = "start"
    /\ LET count == Cardinality(WhereStatus(status, "pending")) IN
        /\ pending_count' = [pending_count EXCEPT ![p] = count]
        /\ pc' = [pc EXCEPT ![p] = IF BelowThreshold(count) THEN "returned"
                                                             ELSE "claim"]
    /\ pendingSeen' = [pendingSeen EXCEPT ![p] = WhereStatus(status, "pending")]
    /\ UNCHANGED <<status, pending_images, processing_image_ids,
                   new_processing_images, idx, image_id,
                   txStarted, written, inferredBy>>
    /\ UNCHANGED nonWorkerVars

\* main.py:185-186 and 159-168: the transaction reads the pending documents
\* and flips each to processing; read and writes commit as one atomic unit.
update_status_processing(p) ==
    /\ pc[p] = "claim"
    /\ LET batch == WhereStatus(status, "pending") IN
        /\ status' = FlipToProcessing(status, batch)
        /\ pending_images' = [pending_images EXCEPT ![p] = Stream(batch)]
        /\ written' = [written EXCEPT ![p] = @ \cup batch]
    /\ txStarted' = [txStarted EXCEPT ![p] = TRUE]
    /\ pc' = [pc EXCEPT ![p] = "snapshot"]
    /\ UNCHANGED <<pending_count, processing_image_ids, new_processing_images, idx,
                   image_id, inferredBy, pendingSeen>>
    /\ UNCHANGED nonWorkerVars

\* main.py:189-193: the keys of all documents that are processing now, then
\* download_images over the claimed batch.
SnapshotProcessing(p) ==
    /\ pc[p] = "snapshot"
    /\ processing_image_ids' =
           [processing_image_ids EXCEPT ![p] = WhereStatus(status, "processing")]
    /\ idx' = [idx EXCEPT ![p] = 1]
    /\ pc' = [pc EXCEPT ![p] = "loop1"]
    /\ UNCHANGED <<status, pending_count, pending_images, new_processing_images,
                   image_id, txStarted, written, inferredBy, pendingSeen>>
    /\ UNCHANGED nonWorkerVars

\* One iteration of the loop at main.py:195-221 over zip(pending_images,
\* pending_image_paths), and its exit.
\* main.py:196-197 with image_id still unbound: the print raises
\* UnboundLocalError and the invocation ends there.
Loop1Raise(p, image_path) ==
    /\ pc[p] = "loop1"
    /\ idx[p] <= Len(pending_images[p])
    /\ image_path = "None"
    /\ image_id[p] = 0
    /\ pc' = [pc EXCEPT ![p] = "raised"]
    /\ UNCHANGED <<status, locals, txStarted, written, inferredBy, pendingSeen>>
    /\ UNCHANGED nonWorkerVars

\* main.py:196-201: no file was downloaded; mark the item error, continue.
Loop1DownloadError(p, image_path) ==
    /\ pc[p] = "loop1"
    /\ idx[p] <= Len(pending_images[p])
    /\ image_path = "None"
    /\ image_id[p] # 0
    /\ LET image == pending_images[p][idx[p]] IN
        /\ status' = UpdateError(status, image)
        /\ written' = [written EXCEPT ![p] = @ \cup {image}]
    /\ idx' = [idx EXCEPT ![p] = @ + 1]
    /\ UNCHANGED <<pc, pending_count, pending_images, processing_image_ids,
                   new_processing_images, image_id,
                   txStarted, inferredBy, pendingSeen>>
    /\ UNCHANGED nonWorkerVars

\* main.py:203-221: infer the image and write error or inferred.
Loop1Infer(p, image_path) ==
    /\ pc[p] = "loop1"
    /\ idx[p] <= Len(pending_images[p])
    /\ image_path = "path"
    /\ LET image == pending_images[p][idx[p]] IN
        /\ image_id' = [image_id EXCEPT ![p] = image]
        /\ inferredBy' = [inferredBy EXCEPT ![image] = @ \cup {p}]
        /\ \E inferences \in InferResults :
               status' = IF inferences = "None" THEN UpdateError(status, image)
                                                ELSE UpdateInferred(status, image)
        /\ written' = [written EXCEPT ![p] = @ \cup {image}]
    /\ idx' = [idx EXCEPT ![p] = @ + 1]
    /\ UNCHANGED <<pc, pending_count, pending_images, processing_image_ids,
                   new_processing_images, txStarted, pendingSeen>>
    /\ UNCHANGED nonWorkerVars

\* main.py:223-227: the loop is over; query the processing documents again
\* and call download_images over them.
QueryStillProcessing(p) ==
    /\ pc[p] = "loop1"
    /\ idx[p] > Len(pending_images[p])
    /\ new_processing_images' =
           [new_processing_images EXCEPT
               ![p] = Stream(WhereStatus(status, "processing"))]
    /\ idx' = [idx EXCEPT ![p] = 1]
    /\ pc' = [pc EXCEPT ![p] = "loop2"]
    /\ UNCHANGED <<status, pending_count, pending_images, processing_image_ids,
                   image_id, txStarted, written, inferredBy, pendingSeen>>
    /\ UNCHANGED nonWorkerVars

\* One iteration of the loop at main.py:229-257 over
\* zip(new_processing_images, new_processing_image_paths), and its exit.
\* main.py:230-231 with image_id still unbound: UnboundLocalError.
Loop2Raise(p, image_path) ==
    /\ pc[p] = "loop2"
    /\ idx[p] <= Len(new_processing_images[p])
    /\ image_path = "None"
    /\ image_id[p] = 0
    /\ pc' = [pc EXCEPT ![p] = "raised"]
    /\ UNCHANGED <<status, locals, txStarted, written, inferredBy, pendingSeen>>
    /\ UNCHANGED nonWorkerVars

\* main.py:230-235: no file; mark the document error (this test comes before
\* the membership test of line 239).
Loop2DownloadError(p, image_path) ==
    /\ pc[p] = "loop2"
    /\ idx[p] <= Len(new_processing_images[p])
    /\ image_path = "None"
    /\ image_id[p] # 0
    /\ LET image == new_processing_images[p][idx[p]] IN
        /\ status' = UpdateError(status, image)
        /\ written' = [written EXCEPT ![p] = @ \cup {image}]
    /\ idx' = [idx EXCEPT ![p] = @ + 1]
    /\ UNCHANGED <<pc, pending_count, pending_images, processing_image_ids,
                   new_processing_images, image_id,
                   txStarted, inferredBy, pendingSeen>>
    /\ UNCHANGED nonWorkerVars

\* main.py:237-240: a document that was not processing at the snapshot of
\* line 190 is skipped.
Loop2Skip(p, image_path) ==
    /\ pc[p] = "loop2"
    /\ idx[p] <= Len(new_processing_images[p])
    /\ image_path = "path"
    /\ LET image == new_processing_images[p][idx[p]] IN
        /\ image \notin processing_image_ids[p]
        /\ image_id' = [image_id EXCEPT ![p] = image]
    /\ idx' = [idx EXCEPT ![p] = @ + 1]
    /\ UNCHANGED <<status, pc, pending_count, pending_images,
                   processing_image_ids, new_processing_images, txStarted, written, inferredBy, pendingSeen>>
    /\ UNCHANGED nonWorkerVars

\* main.py:237-257: a document seen processing at the snapshot and still
\* processing at the second query is inferred and written.
Loop2Infer(p, image_path) ==
    /\ pc[p] = "loop2"
    /\ idx[p] <= Len(new_processing_images[p])
    /\ image_path = "path"
    /\ LET image == new_processing_images[p][idx[p]] IN
        /\ image \in processing_image_ids[p]
        /\ image_id' = [image_id EXCEPT ![p] = image]
        /\ inferredBy' = [inferredBy EXCEPT ![image] = @ \cup {p}]
        /\ \E inferences \in InferResults :
               status' = IF inferences = "None" THEN UpdateError(status, image)
                                                ELSE UpdateInferred(status, image)
        /\ written' = [written EXCEPT ![p] = @ \cup {image}]
    /\ idx' = [idx EXCEPT ![p] = @ + 1]
    /\ UNCHANGED <<pc, pending_count, pending_images, processing_image_ids,
                   new_processing_images, txStarted, pendingSeen>>
    /\ UNCHANGED nonWorkerVars

\* The second loop is over: onImageCreated returns.
Loop2Exit(p) ==
    /\ pc[p] = "loop2"
    /\ idx[p] > Len(new_processing_images[p])
    /\ pc' = [pc EXCEPT ![p] = "done"]
    /\ UNCHANGED <<status, locals, txStarted, written, inferredBy, pendingSeen>>
    /\ UNCHANGED nonWorkerVars

\* An invocation that has ended: returned below the threshold, ran to the
\* end, or was ended by the exception.
Ended(p) == pc[p] \in {"returned", "done", "raised"}

onImageCreated(p) ==
    \/ CountPending(p)
    \/ update_status_processing(p)
    \/ SnapshotProcessing(p)
    \/ \E image_path \in DownloadResults : Loop1Raise(p, image_path)
    \/ \E image_path \in DownloadResults : Loop1DownloadError(p, image_path)
    \/ \E image_path \in DownloadResults : Loop1Infer(p, image_path)
    \/ QueryStillProcessing(p)
    \/ \E image_path \in DownloadResults : Loop2Raise(p, image_path)
    \/ \E image_path \in DownloadResults : Loop2DownloadError(p, image_path)
    \/ \E image_path \in DownloadResults : Loop2Skip(p, image_path)
    \/ \E image_path \in DownloadResults : Loop2Infer(p, image_path)
    \/ Loop2Exit(p)

NextClaim ==
    \/ \E i \in Images : CreateImage(i)
    \/ \E p \in Invocations : onImageCreated(p)

(***************************************************************************)
(* worker/vlm_captioner.py: chat_with_image_llama_api                      *)
(***************************************************************************)

\* Largest max_retries argument explored.
MaxRetries == 8

\* The return value None, "no value yet", and a returned string.
None == [kind |-> "None"]
NotReturned == [kind |-> "running"]
Text(t) == [kind |-> "text", text |-> t]

\* Message contents the server can send: a text body, with or without
\* surrounding whitespace.
Bodies == {"caption1", "caption2"}
Contents == [body : Bodies, padded : BOOLEAN]

\* vlm_captioner.py:444: str.strip() removes the surrounding whitespace.
Strip(content) == [content EXCEPT !.padded = FALSE]

\* What one requests.post can come back with:
\*   ok          status 200 with choices[0].message.content; `repetitive` is
\*               the verdict detect_repetition_loop gives on that content
\*   no_choices  status 200 whose JSON has no (or an empty) `choices`
\*   bad_status  a status other than 200
\*   exception   the request raised (connection error, 600 s timeout, ...)
Replies ==
    [kind : {"ok"}, content : Contents, repetitive : BOOLEAN]
      \cup [kind : {"no_choices", "bad_status", "exception"}]

\* Variant of SamplingParams: top_p is sent without its ceiling.
SamplingParamsUncapped(k) ==
    [temperature |-> Min(70 + k * 5, 100), top_p |-> 80 + k * 5]

\* vlm_captioner.py:421-431: the sampling parameters of the request, in
\* hundredths.
SamplingParams(k) ==
    [temperature |-> Min(70 + k * 5, 100), top_p |-> Min(80 + k * 5, 95)]

\* Variant of HandleReply: a repetitive reply on the last attempt is
\* discarded and the call returns None.
HandleReplyDropsLast(k, retries, reply) ==
    IF reply.kind = "ok" THEN
        IF reply.repetitive THEN
            IF k < retries - 1
                THEN [do |-> "sleep", result |-> NotReturned]
                ELSE [do |-> "return", result |-> None]
        ELSE [do |-> "return", result |-> Text(Strip(reply.content))]
    ELSE IF reply.kind = "no_choices" THEN [do |-> "next", result |-> NotReturned]
    ELSE [do |-> "return", result |-> None]

\* Variant of HandleReply: a status other than 200 is retried like a
\* repetitive reply.
HandleReplyRetriesBadStatus(k, retries, reply) ==
    IF reply.kind = "ok" THEN
        IF reply.repetitive THEN
            IF k < retries - 1
                THEN [do |-> "sleep", result |-> NotReturned]
                ELSE [do |-> "return", result |-> Text(Strip(reply.content))]
        ELSE [do |-> "return", result |-> Text(Strip(reply.content))]
    ELSE IF reply.kind \in {"no_choices", "bad_status"}
        THEN [do |-> "next", result |-> NotReturned]
    ELSE [do |-> "return", result |-> None]

\* vlm_captioner.py:441-472: what the call does with a reply to the request
\* of attempt k. "return" ends the call with `result`; "sleep" is the pause
\* before the retry; "next" goes on to the next iteration directly.
HandleReply(k, retries, reply) ==
    IF reply.kind = "ok" THEN
        IF reply.repetitive THEN
            IF k < retries - 1
                THEN [do |-> "sleep", result |-> NotReturned]
                ELSE [do |-> "return", result |-> Text(Strip(reply.content))]
        ELSE [do |-> "return", result |-> Text(Strip(reply.content))]
    ELSE IF reply.kind = "no_choices" THEN [do |-> "next", result |-> NotReturned]
    ELSE [do |-> "return", result |-> None]

\* How a reply is entered in `responses`.
ReplyTag(reply) ==
    IF reply.kind = "ok"
        THEN (IF reply.repetitive THEN "repetitive" ELSE "clean")
        ELSE reply.kind

InitChat ==
    /\ chat_pc = "start"
    /\ max_retries \in 0..MaxRetries
    /\ attempt = 0
    /\ sent = <<>>
    /\ responses = <<>>
    /\ last_content = [body |-> "caption1", padded |-> FALSE]
    /\ chat_result = NotReturned

\* The chat call is not running (SpecClaim).
InitChatIdle ==
    /\ chat_pc = "idle"
    /\ max_retries = 0
    /\ attempt = 0
    /\ sent = <<>>
    /\ responses = <<>>
    /\ last_content = [body |-> "caption1", padded |-> FALSE]
    /\ chat_result = NotReturned

\* vlm_captioner.py:386-394: the image must exist and encode; else None.
ChatEncodeImage(encoded) ==
    /\ chat_pc = "start"
    /\ IF encoded
          THEN chat_pc' = "loop" /\ UNCHANGED chat_result
          ELSE chat_pc' = "done" /\ chat_result' = None
    /\ UNCHANGED <<max_retries, attempt, sent, responses, last_content>>
    /\ UNCHANGED nonChatVars

\* vlm_captioner.py:397-439: one more iteration: build and post the request.
ChatSendRequest ==
    /\ chat_pc = "loop"
    /\ attempt < max_retries
    /\ sent' = Append(sent, SamplingParams(attempt))
    /\ chat_pc' = "wait"
    /\ UNCHANGED <<max_retries, attempt, responses, last_content, chat_result>>
    /\ UNCHANGED nonChatVars

\* vlm_captioner.py:474: range(max_retries) is exhausted; return None.
ChatLoopExhausted ==
    /\ chat_pc = "loop"
    /\ attempt >= max_retries
    /\ chat_pc' = "done"
    /\ chat_result' = None
    /\ UNCHANGED <<max_retries, attempt, sent, responses, last_content>>
    /\ UNCHANGED nonChatVars

\* vlm_captioner.py:441-472: the reply arrives and is handled.
ChatReceive(reply) ==
    /\ chat_pc = "wait"
    /\ responses' = Append(responses, ReplyTag(reply))
    /\ last_content' = IF reply.kind = "ok" THEN reply.content ELSE last_content
    /\ LET h == HandleReply(attempt, max_retries, reply) IN
        /\ chat_result' = h.result
        /\ chat_pc' = CASE h.do = "return" -> "done"
                        [] h.do = "sleep"  -> "sleep"
                        [] h.do = "next"   -> "loop"
        /\ attempt' = IF h.do = "next" THEN attempt + 1 ELSE attempt
    /\ UNCHANGED <<max_retries, sent>>
    /\ UNCHANGED nonChatVars

\* vlm_captioner.py:455-456: time.sleep(1), then `continue`.
ChatRetryPause ==
    /\ chat_pc = "sleep"
    /\ attempt' = attempt + 1
    /\ chat_pc' = "loop"
    /\ UNCHANGED <<max_retries, sent, responses, last_content, chat_result>>
    /\ UNCHANGED nonChatVars

chat_with_image_llama_api ==
    \/ \E encoded \in BOOLEAN : ChatEncodeImage(encoded)
    \/ ChatSendRequest
    \/ ChatLoopExhausted
    \/ \E reply \in Replies : ChatReceive(reply)
    \/ ChatRetryPause

NextChat == chat_with_image_llama_api

(***************************************************************************)
(* worker/vlm_captioner.py: start_llama_server, wait_for_server,           *)
(* stop_server. Time is counted in whole seconds.                          *)
(***************************************************************************)

\* Largest timeout argument of wait_for_server explored (the callers pass
\* the default, 180).
MaxWaitTimeout == 12

\* vlm_captioner.py:331: time.sleep(5) before the first poll.
GraceDelay == 5

\* vlm_captioner.py:341: time.sleep(2) after a poll that did not succeed.
PollInterval == 2

\* vlm_captioner.py:335: requests.get(..., timeout=5).
PollTimeout == 5

\* vlm_captioner.py:359: process.wait(timeout=10).
StopWaitSeconds == 10

\* vlm_captioner.py:367: time.sleep(3), for the port to be released.
PortReleaseSleep == 3

\* What a health poll can come back with: status 200, another status (the
\* model is still loading), or a RequestException (connection refused, read
\* timeout).
PollResults == {"200", "503", "exception"}

\* How long a poll can take, in seconds; a read timeout takes PollTimeout.
PollDurations == {0, 1, PollTimeout}

\* vlm_captioner.py:333: the loop condition of wait_for_server.
StillWaiting(elapsed, timeout) == elapsed < timeout

\* Variant of PollSucceeded: any HTTP response counts as ready.
PollSucceededAnyStatus(result) == result \in {"200", "503"}

\* vlm_captioner.py:336: response.status_code == 200.
PollSucceeded(result) == result = "200"

\* Variant of WaitOutcome: the wait gives up at once.
WaitOutcomeNoPatience(alive, waited) ==
    IF ~alive THEN "exited" ELSE "timeout"

\* vlm_captioner.py:358-360: process.wait(timeout=10) returns when the
\* process has exited and raises TimeoutExpired after 10 seconds.
WaitOutcome(alive, waited) ==
    IF ~alive THEN "exited"
    ELSE IF waited >= StopWaitSeconds THEN "timeout"
    ELSE "waiting"

\* One entry of stop_log: the step, whether the process was alive when the
\* step was taken, and the seconds the step took.
StopStep(step, seconds) ==
    [step |-> step, alive |-> (process = "alive"), seconds |-> seconds]

InitSrvIdle ==
    /\ srv_pc = "idle"
    /\ process = "None"
    /\ wait_timeout = 0
    /\ wait_elapsed = 0
    /\ polls = <<>>
    /\ wait_result = "running"
    /\ stop_waited = 0
    /\ stop_log = <<>>

InitSrv ==
    /\ srv_pc = "start"
    /\ process = "None"
    /\ wait_timeout \in 0..MaxWaitTimeout
    /\ wait_elapsed = 0
    /\ polls = <<>>
    /\ wait_result = "running"
    /\ stop_waited = 0
    /\ stop_log = <<>>

\* vlm_captioner.py:277-324: start_llama_server returns the Popen handle, or
\* None when the binary is missing or Popen raises.
start_llama_server(started) ==
    /\ srv_pc = "start"
    /\ process' = IF started THEN "alive" ELSE "None"
    /\ srv_pc' = IF started THEN "wait_start" ELSE "stop_call"
    /\ UNCHANGED <<wait_timeout, wait_elapsed, polls, wait_result,
                   stop_waited, stop_log>>
    /\ UNCHANGED nonSrvVars

\* The server process ends by itself: it crashed, or it obeys a SIGTERM.
ProcessExits ==
    /\ process = "alive"
    /\ srv_pc \notin {"stopped"}
    /\ process' = "exited"
    /\ UNCHANGED <<srv_pc, wait_timeout, wait_elapsed, polls, wait_result,
                   stop_waited, stop_log>>
    /\ UNCHANGED nonSrvVars

\* vlm_captioner.py:330-331: start_time is taken, then the grace sleep.
WaitGrace ==
    /\ srv_pc = "wait_start"
    /\ wait_elapsed' = wait_elapsed + GraceDelay
    /\ srv_pc' = "wait_loop"
    /\ UNCHANGED <<process, wait_timeout, polls, wait_result, stop_waited,
                   stop_log>>
    /\ UNCHANGED nonSrvVars

\* vlm_captioner.py:333-335: the loop condition holds; issue a health poll.
WaitPoll ==
    /\ srv_pc = "wait_loop"
    /\ StillWaiting(wait_elapsed, wait_timeout)
    /\ polls' = Append(polls, [at |-> wait_elapsed, done |-> wait_elapsed,
                               result |-> "pending"])
    /\ srv_pc' = "wait_poll"
    /\ UNCHANGED <<process, wait_timeout, wait_elapsed, wait_result,
                   stop_waited, stop_log>>
    /\ UNCHANGED nonSrvVars

\* vlm_captioner.py:343-344: the timeout has elapsed; return False.
WaitTimedOut ==
    /\ srv_pc = "wait_loop"
    /\ ~StillWaiting(wait_elapsed, wait_timeout)
    /\ wait_result' = "False"
    /\ srv_pc' = "stop_call"
    /\ UNCHANGED <<process, wait_timeout, wait_elapsed, polls, stop_waited,
                   stop_log>>
    /\ UNCHANGED nonSrvVars

\* vlm_captioner.py:335-340: the poll comes back after `duration` seconds;
\* status 200 returns True, anything else is passed over. Only a live
\* process answers with an HTTP status.
WaitPollReply(result, duration) ==
    /\ srv_pc = "wait_poll"
    /\ result \in {"200", "503"} => process = "alive"
    /\ wait_elapsed' = wait_elapsed + duration
    /\ polls' = [polls EXCEPT ![Len(polls)] =
                    [@ EXCEPT !.done = wait_elapsed + duration,
                              !.result = result]]
    /\ IF PollSucceeded(result)
          THEN wait_result' = "True" /\ srv_pc' = "stop_call"
          ELSE UNCHANGED wait_result /\ srv_pc' = "wait_sleep"
    /\ UNCHANGED <<process, wait_timeout, stop_waited, stop_log>>
    /\ UNCHANGED nonSrvVars

\* vlm_captioner.py:341: time.sleep(2), then the loop condition again.
WaitSleep ==
    /\ srv_pc = "wait_sleep"
    /\ wait_elapsed' = wait_elapsed + PollInterval
    /\ srv_pc' = "wait_loop"
    /\ UNCHANGED <<process, wait_timeout, polls, wait_result, stop_waited,
                   stop_log>>
    /\ UNCHANGED nonSrvVars

\* vlm_captioner.py:349: stop_server(None) does nothing.
StopNoProcess ==
    /\ srv_pc = "stop_call"
    /\ process = "None"
    /\ srv_pc' = "stopped"
    /\ UNCHANGED <<process, wait_timeout, wait_elapsed, polls, wait_result,
                   stop_waited, stop_log>>
    /\ UNCHANGED nonSrvVars

\* vlm_captioner.py:352-355: SIGTERM to the process group of the server; a
\* group that no longer exists is passed over.
StopSignalGroup ==
    /\ srv_pc = "stop_call"
    /\ process # "None"
    /\ stop_log' = Append(stop_log, StopStep("sigterm_group", 0))
    /\ srv_pc' = "stop_terminate"
    /\ UNCHANGED <<process, wait_timeout, wait_elapsed, polls, wait_result,
                   stop_waited>>
    /\ UNCHANGED nonSrvVars

\* vlm_captioner.py:357: process.terminate().
StopTerminate ==
    /\ srv_pc = "stop_terminate"
    /\ stop_log' = Append(stop_log, StopStep("terminate", 0))
    /\ srv_pc' = "stop_wait"
    /\ UNCHANGED <<process, wait_timeout, wait_elapsed, polls, wait_result,
                   stop_waited>>
    /\ UNCHANGED nonSrvVars

\* vlm_captioner.py:359: one more second inside process.wait(timeout=10).
StopWaitTick ==
    /\ srv_pc = "stop_wait"
    /\ WaitOutcome(process = "alive", stop_waited) = "waiting"
    /\ stop_waited' = stop_waited + 1
    /\ UNCHANGED <<srv_pc, process, wait_timeout, wait_elapsed, polls,
                   wait_result, stop_log>>
    /\ UNCHANGED nonSrvVars

\* vlm_captioner.py:359: process.wait returns, the process has exited.
StopWaitReturns ==
    /\ srv_pc = "stop_wait"
    /\ WaitOutcome(process = "alive", stop_waited) = "exited"
    /\ stop_log' = Append(stop_log, StopStep("wait", stop_waited))
    /\ srv_pc' = "stop_sleep"
    /\ UNCHANGED <<process, wait_timeout, wait_elapsed, polls, wait_result,
                   stop_waited>>
    /\ UNCHANGED nonSrvVars

\* vlm_captioner.py:360: process.wait raises TimeoutExpired.
StopWaitExpires ==
    /\ srv_pc = "stop_wait"
    /\ WaitOutcome(process = "alive", stop_waited) = "timeout"
    /\ stop_log' = Append(stop_log, StopStep("wait", stop_waited))
    /\ srv_pc' = "stop_kill"
    /\ UNCHANGED <<process, wait_timeout, wait_elapsed, polls, wait_result,
                   stop_waited>>
    /\ UNCHANGED nonSrvVars

\* vlm_captioner.py:361-362: process.kill(), then process.wait() until the
\* process is gone.
StopKill ==
    /\ srv_pc = "stop_kill"
    /\ stop_log' = Append(stop_log, StopStep("kill", 0))
    /\ process' = "exited"
    /\ srv_pc' = "stop_sleep"
    /\ UNCHANGED <<wait_timeout, wait_elapsed, polls, wait_result, stop_waited>>
    /\ UNCHANGED nonSrvVars

\* vlm_captioner.py:364-367: time.sleep(3), then stop_server returns.
StopSleep ==
    /\ srv_pc = "stop_sleep"
    /\ stop_log' = Append(stop_log, StopStep("sleep", PortReleaseSleep))
    /\ srv_pc' = "stopped"
    /\ UNCHANGED <<process, wait_timeout, wait_elapsed, polls, wait_result,
                   stop_waited>>
    /\ UNCHANGED nonSrvVars

wait_for_server ==
    \/ WaitGrace
    \/ WaitPoll
    \/ WaitTimedOut
    \/ \E result \in PollResults, duration \in PollDurations :
           WaitPollReply(result, duration)
    \/ WaitSleep

stop_server ==
    \/ StopNoProcess
    \/ StopSignalGroup
    \/ StopTerminate
    \/ StopWaitTick
    \/ StopWaitReturns
    \/ StopWaitExpires
    \/ StopKill
    \/ StopSleep

NextSrv ==
    \/ \E started \in BOOLEAN : start_llama_server(started)
    \/ ProcessExits
    \/ wait_for_server
    \/ stop_server

(***************************************************************************)
(* worker/vlm_captioner.py: run_vlm_captioner, process_images_with_minicpm *)
(* and process_images_with_joycaption. The wait for the server and the     *)
(* stop of the server are single steps here.                               *)
(***************************************************************************)

\* Number of downloaded image paths handed to the drivers.
NumPaths == 2

ImagePaths == 1..NumPaths

\* vlm_captioner.py:893-899: the drivers run_vlm_captioner calls, in the
\* order it calls them.
DriverOrder == <<"joycaption", "minicpm">>

Drivers == Range(DriverOrder)

\* What chat_with_image_llama_api hands back to a driver: text, or None.
GenerationResults == {"text", "None"}

\* Variant of LeaveTry: a server that never became ready is left behind.
LeaveTryNotReadySkipsFinally(kind) ==
    IF kind = "not_ready" THEN "return" ELSE "finally"

\* vlm_captioner.py:583-639, 662-718: the try block of a driver is left by
\* `return` (server not ready), by falling off the loop, or by an exception;
\* the finally clause runs in each case.
LeaveTry(kind) == "finally"

\* Variant of StopServerLeaves: the process survives stop_server.
StopServerLeavesAlive(proc) == proc

\* vlm_captioner.py:347-367: what stop_server leaves of the process.
StopServerLeaves(proc) == IF proc = "None" THEN "None" ELSE "exited"

\* Variant of ServerReady: the driver goes on whatever wait_for_server
\* returned.
ServerReadyIgnored(ready) == TRUE

\* vlm_captioner.py:583-586, 662-665: `if not wait_for_server(): return`.
ServerReady(ready) == ready

\* Variant of SavedSlots: only the caption is written.
SavedSlotsCaptionOnly(key) == {"captions"}

\* vlm_captioner.py:776-786, 820: the fields of update_data that hold a slot
\* of model_key; one doc_ref.set(update_data, merge=True) writes them.
SavedSlots(key) == {"captions", "moderations"}

InitRunIdle ==
    /\ run_pc = "idle"
    /\ next_driver = 1
    /\ models = {}
    /\ generate_explanation = FALSE
    /\ model_key = "None"
    /\ drv_pc = "idle"
    /\ drv_exit = "None"
    /\ server_process = [m \in Drivers |-> "None"]
    /\ stop_calls = [m \in Drivers |-> 0]
    /\ exits = [m \in Drivers |-> "None"]
    /\ item = 0
    /\ requests = {}
    /\ failed = {}
    /\ saved = {}
    /\ doc_status = [i \in ImagePaths |-> "liked"]
    /\ wait_returned = [m \in Drivers |-> "None"]

\* vlm_captioner.py:825-890: the arguments are valid model names, and every
\* downloaded path has its document at status "liked" (download_from_s3).
InitRun ==
    /\ run_pc = "process"
    /\ next_driver = 1
    /\ models \in (SUBSET Drivers) \ {{}}
    /\ generate_explanation \in BOOLEAN
    /\ model_key = "None"
    /\ drv_pc = "idle"
    /\ drv_exit = "None"
    /\ server_process = [m \in Drivers |-> "None"]
    /\ stop_calls = [m \in Drivers |-> 0]
    /\ exits = [m \in Drivers |-> "None"]
    /\ item = 0
    /\ requests = {}
    /\ failed = {}
    /\ saved = {}
    /\ doc_status = [i \in ImagePaths |-> "liked"]
    /\ wait_returned = [m \in Drivers |-> "None"]

\* vlm_captioner.py:893-899: `if '<model>' in models:` holds, the driver is
\* called.
RunCallDriver ==
    /\ run_pc = "process"
    /\ next_driver \in 1..Len(DriverOrder)
    /\ model_key = "None"
    /\ DriverOrder[next_driver] \in models
    /\ model_key' = DriverOrder[next_driver]
    /\ drv_pc' = "start"
    /\ drv_exit' = "None"
    /\ UNCHANGED <<run_pc, next_driver, models, generate_explanation,
                   server_process, stop_calls, exits, item, requests, failed,
                   saved, doc_status>>
    /\ UNCHANGED wait_returned
    /\ UNCHANGED nonRunVars

\* vlm_captioner.py:893-899: the model was not asked for.
RunSkipDriver ==
    /\ run_pc = "process"
    /\ next_driver \in 1..Len(DriverOrder)
    /\ model_key = "None"
    /\ DriverOrder[next_driver] \notin models
    /\ next_driver' = next_driver + 1
    /\ UNCHANGED <<run_pc, models, generate_explanation, model_key, drv_pc,
                   drv_exit, server_process, stop_calls, exits, item,
                   requests, failed, saved, doc_status>>
    /\ UNCHANGED wait_returned
    /\ UNCHANGED nonRunVars

\* vlm_captioner.py:901-902: all drivers were called; the run ends.
RunFinished ==
    /\ run_pc = "process"
    /\ next_driver = Len(DriverOrder) + 1
    /\ run_pc' = "finished"
    /\ UNCHANGED <<next_driver, models, generate_explanation, model_key,
                   drv_pc, drv_exit, server_process, stop_calls, exits, item,
                   requests, failed, saved, doc_status>>
    /\ UNCHANGED wait_returned
    /\ UNCHANGED nonRunVars

\* vlm_captioner.py:577-581, 656-660: start_llama_server; without a process
\* the driver returns at once.
DrvStartServer(started) ==
    /\ drv_pc = "start"
    /\ IF started
          THEN /\ server_process' = [server_process EXCEPT ![model_key] = "alive"]
               /\ drv_pc' = "wait"
               /\ UNCHANGED drv_exit
          ELSE /\ drv_exit' = "no_server"
               /\ drv_pc' = "return"
               /\ UNCHANGED server_process
    /\ UNCHANGED <<run_pc, next_driver, models, generate_explanation,
                   model_key, stop_calls, exits, item, requests, failed,
                   saved, doc_status>>
    /\ UNCHANGED wait_returned
    /\ UNCHANGED nonRunVars

\* The server process of the running driver ends by itself.
DrvServerCrashes ==
    /\ model_key # "None"
    /\ server_process[model_key] = "alive"
    /\ server_process' = [server_process EXCEPT ![model_key] = "exited"]
    /\ UNCHANGED <<run_pc, next_driver, models, generate_explanation,
                   model_key, drv_pc, drv_exit, stop_calls, exits, item,
                   requests, failed, saved, doc_status>>
    /\ UNCHANGED wait_returned
    /\ UNCHANGED nonRunVars

\* vlm_captioner.py:583-586, 662-665: wait_for_server; False leaves the try
\* block by `return`.
DrvWaitForServer(ready) ==
    /\ drv_pc = "wait"
    /\ ready => server_process[model_key] = "alive"
    /\ wait_returned' = [wait_returned EXCEPT
                            ![model_key] = IF ready THEN "True" ELSE "False"]
    /\ IF ServerReady(ready)
          THEN /\ item' = 1
               /\ drv_pc' = "loop"
               /\ UNCHANGED drv_exit
          ELSE /\ drv_exit' = "not_ready"
               /\ drv_pc' = LeaveTry("not_ready")
               /\ UNCHANGED item
    /\ UNCHANGED <<run_pc, next_driver, models, generate_explanation,
                   model_key, server_process, stop_calls, exits, requests,
                   failed, saved, doc_status>>
    /\ UNCHANGED nonRunVars

\* vlm_captioner.py:588, 667: the next image_path of the for loop, or the
\* end of the loop.
DrvLoop ==
    /\ drv_pc = "loop"
    /\ IF item \in ImagePaths
          THEN /\ drv_pc' = "caption"
               /\ UNCHANGED drv_exit
          ELSE /\ drv_exit' = "completed"
               /\ drv_pc' = LeaveTry("completed")
    /\ UNCHANGED <<run_pc, next_driver, models, generate_explanation,
                   model_key, server_process, stop_calls, exits, item,
                   requests, failed, saved, doc_status>>
    /\ UNCHANGED wait_returned
    /\ UNCHANGED nonRunVars

\* vlm_captioner.py:591-597, 670-676: the caption request; None abandons the
\* item with `continue`.
DrvCaption(caption) ==
    /\ drv_pc = "caption"
    /\ caption = "text" => server_process[model_key] = "alive"
    /\ requests' = requests \cup {<<model_key, item, "caption">>}
    /\ IF caption = "None"
          THEN /\ failed' = failed \cup {<<model_key, item>>}
               /\ item' = item + 1
               /\ drv_pc' = "loop"
          ELSE /\ drv_pc' = "moderation"
               /\ UNCHANGED <<failed, item>>
    /\ UNCHANGED <<run_pc, next_driver, models, generate_explanation,
                   model_key, drv_exit, server_process, stop_calls, exits,
                   saved, doc_status>>
    /\ UNCHANGED wait_returned
    /\ UNCHANGED nonRunVars

\* vlm_captioner.py:602-613, 681-692: the moderation request; None abandons
\* the item with `continue`.
DrvModeration(moderation_raw) ==
    /\ drv_pc = "moderation"
    /\ moderation_raw = "text" => server_process[model_key] = "alive"
    /\ requests' = requests \cup {<<model_key, item, "moderation">>}
    /\ IF moderation_raw = "None"
          THEN /\ failed' = failed \cup {<<model_key, item>>}
               /\ item' = item + 1
               /\ drv_pc' = "loop"
          ELSE /\ drv_pc' = IF generate_explanation THEN "explanation"
                                                    ELSE "save"
               /\ UNCHANGED <<failed, item>>
    /\ UNCHANGED <<run_pc, next_driver, models, generate_explanation,
                   model_key, drv_exit, server_process, stop_calls, exits,
                   saved, doc_status>>
    /\ UNCHANGED wait_returned
    /\ UNCHANGED nonRunVars

\* vlm_captioner.py:616-630, 695-709: the optional explanation request; its
\* failure leaves explanation None and the item goes on.
DrvExplanation(explanation) ==
    /\ drv_pc = "explanation"
    /\ explanation = "text" => server_process[model_key] = "alive"
    /\ requests' = requests \cup {<<model_key, item, "explanation">>}
    /\ drv_pc' = "save"
    /\ UNCHANGED <<run_pc, next_driver, models, generate_explanation,
                   model_key, drv_exit, server_process, stop_calls, exits,
                   item, failed, saved, doc_status>>
    /\ UNCHANGED wait_returned
    /\ UNCHANGED nonRunVars

\* vlm_captioner.py:633-636, 712-715: save_to_firestore; an error of the
\* Firestore client is not caught and leaves the try block.
DrvSave(stored) ==
    /\ drv_pc = "save"
    /\ IF stored
          THEN /\ saved' = saved \cup {<<model_key, item, slot>> :
                                         slot \in SavedSlots(model_key)}
               /\ item' = item + 1
               /\ drv_pc' = "loop"
               /\ UNCHANGED drv_exit
          ELSE /\ drv_exit' = "exception"
               /\ drv_pc' = LeaveTry("exception")
               /\ UNCHANGED <<saved, item>>
    /\ UNCHANGED <<run_pc, next_driver, models, generate_explanation,
                   model_key, server_process, stop_calls, exits, requests,
                   failed, doc_status>>
    /\ UNCHANGED wait_returned
    /\ UNCHANGED nonRunVars

\* vlm_captioner.py:638-639, 717-718: finally: stop_server(server_process).
DrvFinally ==
    /\ drv_pc = "finally"
    /\ server_process' = [server_process EXCEPT
                             ![model_key] = StopServerLeaves(@)]
    /\ stop_calls' = [stop_calls EXCEPT ![model_key] = @ + 1]
    /\ drv_pc' = "return"
    /\ UNCHANGED <<run_pc, next_driver, models, generate_explanation,
                   model_key, drv_exit, exits, item, requests, failed, saved,
                   doc_status>>
    /\ UNCHANGED wait_returned
    /\ UNCHANGED nonRunVars

\* The driver returns to run_vlm_captioner, which goes on to its next `if`;
\* an exception of the driver is not caught there and ends the run.
DrvReturn ==
    /\ drv_pc = "return"
    /\ exits' = [exits EXCEPT ![model_key] = drv_exit]
    /\ model_key' = "None"
    /\ drv_pc' = "idle"
    /\ run_pc' = IF drv_exit = "exception" THEN "raised" ELSE run_pc
    /\ next_driver' = next_driver + 1
    /\ UNCHANGED <<models, generate_explanation, drv_exit, server_process,
                   stop_calls, item, requests, failed, saved, doc_status>>
    /\ UNCHANGED wait_returned
    /\ UNCHANGED nonRunVars

process_images ==
    \/ \E started \in BOOLEAN : DrvStartServer(started)
    \/ DrvServerCrashes
    \/ \E ready \in BOOLEAN : DrvWaitForServer(ready)
    \/ DrvLoop
    \/ \E caption \in GenerationResults : DrvCaption(caption)
    \/ \E moderation_raw \in GenerationResults : DrvModeration(moderation_raw)
    \/ \E explanation \in GenerationResults : DrvExplanation(explanation)
    \/ \E stored \in BOOLEAN : DrvSave(stored)
    \/ DrvFinally
    \/ DrvReturn

run_vlm_captioner ==
    \/ RunCallDriver
    \/ RunSkipDriver
    \/ RunFinished
    \/ process_images

NextRun == run_vlm_captioner

(***************************************************************************)
(* worker/backfill_age_estimation.py: run_backfill,                        *)
(* get_images_without_age_estimation, process_image_age_estimation.        *)
(***************************************************************************)

\* Number of documents with status "liked" in the images collection.
NumDocs == 2

\* Largest batch_size and max_images arguments explored.
MaxBatch == 2

\* total_processed is counted exactly up to this count and held there.  It is
\* above every max_images explored (MaxBatch), and the counter is only ever
\* compared with max_images, so the control flow is the code's for every
\* length of run.
MaxProcessed == 4

Docs == 1..NumDocs

\* vlm_captioner.py:68-91: keys of MODELS; run_backfill accepts any of them
\* as age_model (backfill_age_estimation.py:211-213).
AgeModelKeys == {"qwen3", "minicpm"}

\* What a result slot of a document can hold: nothing, a complete entry
\* written before this run, a complete entry written by this run, or the raw
\* text with a null parsed result.
Slots == {"absent", "old", "parsed", "raw_only"}

\* What the generation and parsing of one document come to:
\* chat_text_only_llama_api returns None; it returns text that
\* parse_age_estimation cannot parse; it returns text that parses; or the
\* Firestore write raises.
AgeOutcomes == {"None", "unparsable", "parsed", "raises"}

\* backfill_age_estimation.py:61: .limit(limit * 3) on the status query.
Queried(limit) == {d \in Docs : d <= limit * 3}

\* backfill_age_estimation.py:72-79: the client-side filter; the key tested
\* in ageEstimations is the literal 'qwen3'.
Eligible(caps, ages, d) == caps[d] /\ ages[d]["qwen3"] = "absent"

\* backfill_age_estimation.py:67-86: the loop over docs, with `examined`
\* documents of the page taken so far: a document that passes the filter is
\* appended, and the loop is left once limit documents are collected.
RECURSIVE ScanDocs(_, _, _, _, _, _)
ScanDocs(caps, ages, page, limit, examined, images_without_age) ==
    IF examined = Len(page)
    THEN [images |-> images_without_age, examined |-> examined]
    ELSE LET d == page[examined + 1]
         IN  IF ~Eligible(caps, ages, d)
             THEN ScanDocs(caps, ages, page, limit, examined + 1,
                           images_without_age)
             ELSE IF Len(images_without_age) + 1 >= limit
             THEN [images |-> Append(images_without_age, d),
                   examined |-> examined + 1]
             ELSE ScanDocs(caps, ages, page, limit, examined + 1,
                           Append(images_without_age, d))

\* backfill_age_estimation.py:45-88.
get_images_without_age_estimation(caps, ages, limit) ==
    ScanDocs(caps, ages, Stream(Queried(limit)), limit, 0, <<>>).images

\* The number of documents the loop of get_images_without_age_estimation
\* takes from the stream.
Examined(caps, ages, limit) ==
    ScanDocs(caps, ages, Stream(Queried(limit)), limit, 0, <<>>).examined

\* backfill_age_estimation.py:251-252.
FetchLimit(batch, maximum, processed) ==
    IF maximum # 0 THEN Min(batch, maximum - processed) ELSE batch

\* A variant of MaxReached that never stops at max_images.
MaxNeverReached(maximum, processed) == FALSE

\* backfill_age_estimation.py:246, 284: `max_images and total_processed >=
\* max_images`.
MaxReached(maximum, processed) == maximum # 0 /\ processed >= maximum

\* backfill_age_estimation.py:145-190: what process_image_age_estimation
\* leaves in ageEstimations[age_model_key] of document d.
StoreAgeEstimation(ages, d, key, outcome) ==
    IF outcome = "parsed" THEN [ages EXCEPT ![d][key] = "parsed"] ELSE ages

InitBackfillIdle ==
    /\ bf_pc = "idle"
    /\ caption_model = "minicpm"
    /\ age_model = "qwen3"
    /\ batch_size = 1
    /\ max_images = 0
    /\ captions = [d \in Docs |-> FALSE]
    /\ ageEstimations = [d \in Docs |-> [k \in AgeModelKeys |-> "absent"]]
    /\ images = <<>>
    /\ fetch_limit = 0
    /\ doc = 0
    /\ total_processed = 0
    /\ bf_server_process = "None"
    /\ bf_exit = "None"
    /\ parse_failed = {}

\* backfill_age_estimation.py:196-230: valid arguments; the collection holds
\* documents with and without a caption, with and without earlier age
\* estimation slots.
InitBackfill ==
    /\ bf_pc = "start"
    /\ caption_model = "minicpm"
    /\ age_model \in AgeModelKeys
    /\ batch_size \in 1..MaxBatch
    /\ max_images \in 0..MaxBatch
    /\ captions \in [Docs -> BOOLEAN]
    /\ ageEstimations \in [Docs -> [AgeModelKeys -> {"absent", "old"}]]
    /\ images = <<>>
    /\ fetch_limit = 0
    /\ doc = 0
    /\ total_processed = 0
    /\ bf_server_process = "None"
    /\ bf_exit = "None"
    /\ parse_failed = {}

\* backfill_age_estimation.py:234-237: start_llama_server; without a process
\* run_backfill returns.
BfStartServer(started) ==
    /\ bf_pc = "start"
    /\ IF started
          THEN /\ bf_server_process' = "alive"
               /\ bf_pc' = "wait"
               /\ UNCHANGED bf_exit
          ELSE /\ bf_exit' = "no_server"
               /\ bf_pc' = "returned"
               /\ UNCHANGED bf_server_process
    /\ UNCHANGED <<caption_model, age_model, batch_size, max_images, captions,
                   ageEstimations, images, fetch_limit, doc, total_processed,
                   parse_failed>>
    /\ UNCHANGED nonBfVars

\* backfill_age_estimation.py:239-242: wait_for_server; False leaves the try
\* block by `return`.
BfWaitForServer(ready) ==
    /\ bf_pc = "wait"
    /\ IF ready
          THEN /\ bf_pc' = "while"
               /\ UNCHANGED bf_exit
          ELSE /\ bf_exit' = "not_ready"
               /\ bf_pc' = "finally"
    /\ UNCHANGED <<caption_model, age_model, batch_size, max_images, captions,
                   ageEstimations, images, fetch_limit, doc, total_processed,
                   bf_server_process, parse_failed>>
    /\ UNCHANGED nonBfVars

\* backfill_age_estimation.py:244-260: the head of the while loop: stop at
\* max_images, else select the next batch and stop when it is empty.
BfFetch ==
    /\ bf_pc = "while"
    /\ IF MaxReached(max_images, total_processed)
          THEN /\ bf_exit' = "completed"
               /\ bf_pc' = "finally"
               /\ UNCHANGED <<images, fetch_limit, doc>>
          ELSE LET limit == FetchLimit(batch_size, max_images, total_processed)
                   batch == get_images_without_age_estimation(
                                captions, ageEstimations, limit)
               IN  /\ fetch_limit' = limit
                   /\ images' = batch
                   /\ IF batch = <<>>
                         THEN /\ bf_exit' = "completed"
                              /\ bf_pc' = "finally"
                              /\ UNCHANGED doc
                         ELSE /\ doc' = 1
                              /\ bf_pc' = "for"
                              /\ UNCHANGED bf_exit
    /\ UNCHANGED <<caption_model, age_model, batch_size, max_images, captions,
                   ageEstimations, total_processed, bf_server_process,
                   parse_failed>>
    /\ UNCHANGED nonBfVars

\* backfill_age_estimation.py:269-293: one document of the batch goes
\* through process_image_age_estimation, the counter is advanced, and the
\* for loop and the while loop go on or stop.
BfProcessImage(outcome) ==
    /\ bf_pc = "for"
    /\ LET d == images[doc]
           processed == total_processed + 1
           last == doc = Len(images) \/ MaxReached(max_images, processed)
       IN  /\ ageEstimations' =
                  StoreAgeEstimation(ageEstimations, d, age_model, outcome)
           /\ parse_failed' = CASE outcome = "unparsable" -> parse_failed \cup {d}
                                 [] outcome = "parsed" -> parse_failed \ {d}
                                 [] OTHER -> parse_failed
           /\ IF outcome = "raises"
                 THEN /\ bf_exit' = "exception"
                      /\ bf_pc' = "finally"
                      /\ UNCHANGED <<total_processed, doc>>
                 ELSE /\ total_processed' = Min(processed, MaxProcessed)
                      /\ IF ~last
                            THEN /\ doc' = doc + 1
                                 /\ UNCHANGED <<bf_pc, bf_exit>>
                            ELSE /\ UNCHANGED doc
                                 /\ IF Len(images) < fetch_limit
                                       THEN /\ bf_exit' = "completed"
                                            /\ bf_pc' = "finally"
                                       ELSE /\ bf_pc' = "while"
                                            /\ UNCHANGED bf_exit
    /\ UNCHANGED <<caption_model, age_model, batch_size, max_images, captions,
                   images, fetch_limit, bf_server_process>>
    /\ UNCHANGED nonBfVars

\* backfill_age_estimation.py:295-297: finally: stop_server(server_process).
BfFinally ==
    /\ bf_pc = "finally"
    /\ bf_server_process' = StopServerLeaves(bf_server_process)
    /\ bf_pc' = "returned"
    /\ UNCHANGED <<caption_model, age_model, batch_size, max_images, captions,
                   ageEstimations, images, fetch_limit, doc, total_processed,
                   bf_exit, parse_failed>>
    /\ UNCHANGED nonBfVars

run_backfill ==
    \/ \E started \in BOOLEAN : BfStartServer(started)
    \/ \E ready \in BOOLEAN : BfWaitForServer(ready)
    \/ BfFetch
    \/ \E outcome \in AgeOutcomes : BfProcessImage(outcome)
    \/ BfFinally

NextBackfill == run_backfill

(***************************************************************************)
(* Writers of one document of the images collection:                       *)
(* vlm_captioner.py save_to_firestore, backfill_pixai_tags.py              *)
(* save_pixai_tags_to_firestore, backfill_age_estimation.py                *)
(* process_image_age_estimation.                                           *)
(***************************************************************************)

\* Number of results persisted that is followed.
MaxValues == 3

\* Two drivers at work on the same document.
Savers == {"saver1", "saver2"}

\* The slot maps each writer persists into, by the model key it writes.
SlotMaps(key) ==
    CASE key \in {"minicpm", "joycaption"} -> {"captions", "moderations"}
      [] key = "pixai" -> {"tags"}
      [] key = "qwen3" -> {"ageEstimations"}

SaverKeys == {"minicpm", "joycaption", "pixai", "qwen3"}

\* The slots of a document: <<slot map, model key>>.
SlotPaths == UNION {{<<map, key>> : map \in SlotMaps(key)} : key \in SaverKeys}

\* The value of a slot that does not exist.
Absent == 0

\* vlm_captioner.py:769-787, backfill_pixai_tags.py:122-135: the update a
\* read-modify-write saver sends: for each of its slot maps, the whole map as
\* it was read, with the entry of its own key replaced.
UpdateData(snapshot, key, value) ==
    [path \in {q \in SlotPaths : /\ q[1] \in SlotMaps(key)
                                 /\ (q[2] = key \/ snapshot[q] # Absent)}
        |-> IF path[2] = key THEN value ELSE snapshot[path]]

\* backfill_age_estimation.py:186-190: the update of
\* process_image_age_estimation names its own slot only.
OwnSlotData(key, value) ==
    [path \in {q \in SlotPaths : q[2] = key} |-> value]

\* doc_ref.set(update, merge=True): the fields the update names are written,
\* every other field of the stored document is left as it is.
MergeSet(stored, update) ==
    [path \in SlotPaths |-> IF path \in DOMAIN update THEN update[path]
                                                         ELSE stored[path]]

InitStoreIdle ==
    /\ document = [path \in SlotPaths |-> Absent]
    /\ saver_pc = [s \in Savers |-> "off"]
    /\ saver_key = [s \in Savers |-> "None"]
    /\ existing_data = [s \in Savers |-> [path \in SlotPaths |-> Absent]]
    /\ next_value = 1

\* A document that download_from_s3 has created: no result slot yet.
InitStore ==
    /\ document = [path \in SlotPaths |-> Absent]
    /\ saver_pc = [s \in Savers |-> "idle"]
    /\ saver_key = [s \in Savers |-> "None"]
    /\ existing_data = [s \in Savers |-> [path \in SlotPaths |-> Absent]]
    /\ next_value = 1

\* vlm_captioner.py:769-773, backfill_pixai_tags.py:122-127: doc_ref.get()
\* at the start of a save for model key `key`.
SaveRead(s, key) ==
    /\ saver_pc[s] = "idle"
    /\ next_value <= MaxValues
    /\ saver_key' = [saver_key EXCEPT ![s] = key]
    /\ existing_data' = [existing_data EXCEPT ![s] = document]
    /\ saver_pc' = [saver_pc EXCEPT ![s] = "read"]
    /\ UNCHANGED <<document, next_value>>
    /\ UNCHANGED nonStoreVars

\* vlm_captioner.py:775-820, backfill_pixai_tags.py:129-139: the slot maps
\* read are given the new entry and written back with merge=True.
SaveWrite(s) ==
    /\ saver_pc[s] = "read"
    /\ next_value <= MaxValues
    /\ document' = MergeSet(document,
                       UpdateData(existing_data[s], saver_key[s], next_value))
    /\ next_value' = next_value + 1
    /\ saver_pc' = [saver_pc EXCEPT ![s] = "written"]
    /\ UNCHANGED <<saver_key, existing_data>>
    /\ UNCHANGED nonStoreVars

\* backfill_age_estimation.py:184-190: process_image_age_estimation writes
\* its slot without reading the document again.
SaveAgeEstimation(s) ==
    /\ saver_pc[s] = "idle"
    /\ next_value <= MaxValues
    /\ saver_key' = [saver_key EXCEPT ![s] = "qwen3"]
    /\ document' = MergeSet(document, OwnSlotData("qwen3", next_value))
    /\ next_value' = next_value + 1
    /\ saver_pc' = [saver_pc EXCEPT ![s] = "written"]
    /\ UNCHANGED existing_data
    /\ UNCHANGED nonStoreVars

\* The save function returns; the driver may come to the document again.
SaveReturn(s) ==
    /\ saver_pc[s] = "written"
    /\ saver_pc' = [saver_pc EXCEPT ![s] = "idle"]
    /\ UNCHANGED <<document, saver_key, existing_data, next_value>>
    /\ UNCHANGED nonStoreVars

NextStore ==
    \E s \in Savers :
        \/ \E key \in SaverKeys \ {"qwen3"} : SaveRead(s, key)
        \/ SaveWrite(s)
        \/ SaveAgeEstimation(s)
        \/ SaveReturn(s)

(***************************************************************************)
(* worker/backfill_pixai_tags.py: signal_handler, backfill_pixai_tags.     *)
(***************************************************************************)

\* Number of image files in the local directory.
NumFiles == 3

Files == 1..NumFiles

\* What tagging and saving one image come to: the tags are saved, or
\* Image.open, tag_image or the save raises.
TagResults == {"result", "raises"}

\* Variant of signal_handler: the first interrupt ends the program.
signal_handler_exits(requested) == "exit"

\* backfill_pixai_tags.py:51-59: the first SIGINT sets the flag, a later one
\* calls sys.exit(1).
signal_handler(requested) == IF ~requested THEN "set_flag" ELSE "exit"

\* The loop body is at work on a file.
InHand == px_pc \in {"check", "process"}

InitPixaiIdle ==
    /\ px_pc = "idle"
    /\ image_file = 0
    /\ shutdown_requested = FALSE
    /\ skip_existing = TRUE
    /\ px_max_images = 0
    /\ processed_count = 0
    /\ tags = [f \in Files |-> "absent"]
    /\ file_outcome = [f \in Files |-> "none"]
    /\ interrupts = 0
    /\ signal_item = 0
    /\ tagger_closed = FALSE

\* backfill_pixai_tags.py:142-183: the files are found, the tagger is built;
\* some documents hold PixAI tags of an earlier run.
InitPixai ==
    /\ px_pc = "for"
    /\ image_file = 1
    /\ shutdown_requested = FALSE
    /\ skip_existing \in BOOLEAN
    /\ px_max_images \in 0..NumFiles
    /\ processed_count = 0
    /\ tags \in [Files -> {"absent", "old"}]
    /\ file_outcome = [f \in Files |-> "none"]
    /\ interrupts = 0
    /\ signal_item = 0
    /\ tagger_closed = FALSE

\* backfill_pixai_tags.py:184-191: the item boundary: the loop ends when the
\* files are used up, when the flag is set, or at max_images.
PxBoundary ==
    /\ px_pc = "for"
    /\ px_pc' = IF \/ image_file \notin Files
                   \/ shutdown_requested
                   \/ MaxReached(px_max_images, processed_count)
                   THEN "finally" ELSE "check"
    /\ UNCHANGED <<image_file, shutdown_requested, skip_existing,
                   px_max_images, processed_count, tags, file_outcome,
                   interrupts, signal_item, tagger_closed>>
    /\ UNCHANGED nonPxVars

\* backfill_pixai_tags.py:193-199: with skip_existing, a file whose document
\* has PixAI tags is passed over; an error of the Firestore read is not
\* caught in the loop.
PxCheckExisting(readable) ==
    /\ px_pc = "check"
    /\ IF ~skip_existing
          THEN /\ px_pc' = "process"
               /\ UNCHANGED <<file_outcome, image_file>>
          ELSE IF ~readable
          THEN /\ file_outcome' = [file_outcome EXCEPT ![image_file] = "raised"]
               /\ px_pc' = "finally_raised"
               /\ UNCHANGED image_file
          ELSE IF tags[image_file] # "absent"
          THEN /\ file_outcome' = [file_outcome EXCEPT ![image_file] = "skipped"]
               /\ image_file' = image_file + 1
               /\ px_pc' = "for"
          ELSE /\ px_pc' = "process"
               /\ UNCHANGED <<file_outcome, image_file>>
    /\ UNCHANGED <<shutdown_requested, skip_existing, px_max_images,
                   processed_count, tags, interrupts, signal_item,
                   tagger_closed>>
    /\ UNCHANGED nonPxVars

\* backfill_pixai_tags.py:201-237: the file is tagged and its tags saved, or
\* the error is counted; the loop goes to the next file.
PxProcess(result) ==
    /\ px_pc = "process"
    /\ IF result = "result"
          THEN /\ tags' = [tags EXCEPT ![image_file] = "new"]
               /\ file_outcome' = [file_outcome EXCEPT ![image_file] = "saved"]
               /\ processed_count' = processed_count + 1
          ELSE /\ file_outcome' = [file_outcome EXCEPT ![image_file] = "error"]
               /\ UNCHANGED <<tags, processed_count>>
    /\ image_file' = image_file + 1
    /\ px_pc' = "for"
    /\ UNCHANGED <<shutdown_requested, skip_existing, px_max_images,
                   interrupts, signal_item, tagger_closed>>
    /\ UNCHANGED nonPxVars

\* backfill_pixai_tags.py:239-257: finally: tagger.close(); then the summary
\* and the return, or the exception goes on to the caller.
PxFinally ==
    /\ px_pc \in {"finally", "finally_raised"}
    /\ tagger_closed' = TRUE
    /\ px_pc' = IF px_pc = "finally" THEN "returned" ELSE "raised"
    /\ UNCHANGED <<image_file, shutdown_requested, skip_existing,
                   px_max_images, processed_count, tags, file_outcome,
                   interrupts, signal_item>>
    /\ UNCHANGED nonPxVars

\* backfill_pixai_tags.py:51-62: a SIGINT arrives while the loop runs. The
\* handler sets the flag and the interrupted code goes on, or it raises
\* SystemExit there, which leaves the loop through the finally clause.
PxInterrupt ==
    /\ px_pc \in {"for", "check", "process"}
    /\ interrupts' = interrupts + 1
    /\ signal_item' = IF interrupts = 0 /\ InHand THEN image_file
                                                  ELSE signal_item
    /\ IF signal_handler(shutdown_requested) = "set_flag"
          THEN /\ shutdown_requested' = TRUE
               /\ UNCHANGED <<px_pc, tagger_closed>>
          ELSE /\ px_pc' = "exited"
               /\ tagger_closed' = TRUE
               /\ UNCHANGED shutdown_requested
    /\ UNCHANGED <<image_file, skip_existing, px_max_images, processed_count,
                   tags, file_outcome>>
    /\ UNCHANGED nonPxVars

backfill_pixai_tags ==
    \/ PxBoundary
    \/ \E readable \in BOOLEAN : PxCheckExisting(readable)
    \/ \E result \in TagResults : PxProcess(result)
    \/ PxFinally

NextPixai ==
    \/ backfill_pixai_tags
    \/ PxInterrupt

(***************************************************************************)
(* worker/scripts/backfill_twitter_source.py: backfill_twitter_source_data *)
(***************************************************************************)

\* Number of documents the query type == 'twitter' streams.
NumTwitterDocs == 4

TwitterDocs == 1..NumTwitterDocs

\* The most mutations Firestore takes in one batch: 500 in the docstring of
\* backfill_twitter_source_data, scaled to 3 here; the code never reads it.
BatchLimit == 3

\* batch_size arguments explored: the scaled default, smaller ones, zero and
\* one above the limit.
BatchSizes == 0..(BatchLimit + 1)

\* limit arguments explored; 0 stands for None (`if limit and ...`).
Limits == 0..NumTwitterDocs

\* What the loop body finds for a document:
\*   has_source   a non-empty field source (lines 104-108)
\*   no_media_id  no key, or a key extract_media_id_from_key rejects
\*                (lines 111-121)
\*   not_found    a media id that is not in media_mapping (lines 124-128)
\*   mapped       a media id that is in media_mapping
DocKinds == {"has_source", "no_media_id", "not_found", "mapped"}

\* The field source of a document before the run.
SourceBefore(kind) == IF kind = "has_source" THEN "present" ELSE "absent"

\* Variant of Queues: the update is queued in a dry run too.
QueuesInDryRun(dry_run) == TRUE

\* Lines 153-161: the update is added to the batch unless dry_run.
Queues(dry_run) == ~dry_run

\* Line 167: the batch is committed when it has reached batch_size.
BatchFull(batch_update_count, size) == batch_update_count >= size

\* Line 180: `if limit and updated_count >= limit`.
LimitReached(limit, updated) == limit # 0 /\ updated >= limit

\* batch.commit(): every queued update sets the field source of its document.
Commit(store, batch) ==
    [d \in TwitterDocs |-> IF d \in Range(batch) THEN "written" ELSE store[d]]

InitTwitterIdle ==
    /\ tw_pc = "idle"
    /\ tw_args = [dry_run |-> FALSE, limit |-> 0, batch_size |-> BatchLimit]
    /\ tw_docs = [d \in TwitterDocs |-> "has_source"]
    /\ tw_processed = 0
    /\ tw_batch = <<>>
    /\ updated_count = 0
    /\ source = [d \in TwitterDocs |-> "present"]
    /\ commits = <<>>

InitTwitter ==
    /\ tw_pc = "load"
    /\ tw_args \in [dry_run : BOOLEAN, limit : Limits, batch_size : BatchSizes]
    /\ tw_docs \in [TwitterDocs -> DocKinds]
    /\ tw_processed = 0
    /\ tw_batch = <<>>
    /\ updated_count = 0
    /\ source = [d \in TwitterDocs |-> SourceBefore(tw_docs[d])]
    /\ commits = <<>>

\* Lines 72-75: load_twitter_media_mapping; an empty mapping ends the call.
\* The mapping can be empty only when no document's media id is in it.
TwLoad(empty) ==
    /\ tw_pc = "load"
    /\ empty => \A d \in TwitterDocs : tw_docs[d] # "mapped"
    /\ tw_pc' = IF empty THEN "done" ELSE "loop"
    /\ UNCHANGED <<tw_args, tw_docs, tw_processed, tw_batch, updated_count,
                   source, commits>>
    /\ UNCHANGED nonTwVars

\* Lines 98-186, one iteration of `for doc in docs` whose document is
\* skipped: it has a source already, no media id, or no mapping entry.
TwSkip ==
    /\ tw_pc = "loop"
    /\ tw_processed < NumTwitterDocs
    /\ tw_docs[tw_processed + 1] # "mapped"
    /\ tw_processed' = tw_processed + 1
    /\ UNCHANGED <<tw_pc, tw_args, tw_docs, tw_batch, updated_count, source,
                   commits>>
    /\ UNCHANGED nonTwVars

\* Lines 98-186, one iteration whose document gets a source field: the
\* update is queued unless dry_run, the batch committed once it has reached
\* batch_size, and the loop left when the limit is reached.
TwUpdate ==
    /\ tw_pc = "loop"
    /\ tw_processed < NumTwitterDocs
    /\ tw_docs[tw_processed + 1] = "mapped"
    /\ tw_processed' = tw_processed + 1
    /\ LET doc_id == tw_processed + 1
           queued == IF Queues(tw_args.dry_run)
                     THEN Append(tw_batch, doc_id) ELSE tw_batch
           full   == /\ Queues(tw_args.dry_run)
                     /\ BatchFull(Len(queued), tw_args.batch_size)
       IN  /\ tw_batch' = IF full THEN <<>> ELSE queued
           /\ commits' = IF full THEN Append(commits, queued) ELSE commits
           /\ source' = IF full THEN Commit(source, queued) ELSE source
    /\ updated_count' = updated_count + 1
    /\ tw_pc' = IF LimitReached(tw_args.limit, updated_count')
                THEN "final" ELSE "loop"
    /\ UNCHANGED <<tw_args, tw_docs>>
    /\ UNCHANGED nonTwVars

\* The stream docs is exhausted.
TwExhausted ==
    /\ tw_pc = "loop"
    /\ tw_processed = NumTwitterDocs
    /\ tw_pc' = "final"
    /\ UNCHANGED <<tw_args, tw_docs, tw_processed, tw_batch, updated_count,
                   source, commits>>
    /\ UNCHANGED nonTwVars

\* A variant of FinalCommit that leaves the remaining updates uncommitted.
FinalCommitSkipped(dry_run, batch_update_count) == FALSE

\* Line 189: `if not dry_run and batch_update_count > 0`.
FinalCommit(dry_run, batch_update_count) == ~dry_run /\ batch_update_count > 0

\* Lines 189-193: the remaining updates are committed, and the call returns.
TwFinal ==
    /\ tw_pc = "final"
    /\ LET final == FinalCommit(tw_args.dry_run, Len(tw_batch))
       IN  /\ tw_batch' = IF final THEN <<>> ELSE tw_batch
           /\ commits' = IF final THEN Append(commits, tw_batch) ELSE commits
           /\ source' = IF final THEN Commit(source, tw_batch) ELSE source
    /\ tw_pc' = "done"
    /\ UNCHANGED <<tw_args, tw_docs, tw_processed, updated_count>>
    /\ UNCHANGED nonTwVars

backfill_twitter_source_data ==
    \/ \E empty \in BOOLEAN : TwLoad(empty)
    \/ TwSkip
    \/ TwUpdate
    \/ TwExhausted
    \/ TwFinal

NextTwitter == backfill_twitter_source_data

(***************************************************************************)
(* worker/vlm_utils.py: detect_repetition_loop.  A string is a sequence of *)
(* one-character strings, so that len, slices, split and join are computed *)
(* as Python computes them.                                                *)
(***************************************************************************)

\* vlm_utils.py:12-13: the defaults of min_length and threshold.
MIN_REPETITION_LENGTH == 10
REPETITION_THRESHOLD == 3

\* vlm_utils.py:108, 122: the length of a single-character run that is
\* reported, and the least text length for which runs are looked for.
SingleCharRun == 30

\* Largest number of times a phrase is repeated in the texts explored.
MaxReps == 3

\* Largest number of times a short character pattern is repeated.
MaxPatternReps == 6

\* Longest run of one character in the texts explored.
MaxRun == 31

\* s repeated k times: the Python expression s * k.
RECURSIVE Rep(_, _)
Rep(s, k) == IF k = 0 THEN <<>> ELSE s \o Rep(s, k - 1)

\* The Python slice s[a:b], for 0 <= a <= b.
Slice(s, a, b) == SubSeq(s, a + 1, Min(b, Len(s)))

\* The characters str.split() and str.strip() take for whitespace.
Whitespace == {" ", "\t", "\n"}

\* vlm_utils.py:54: text.split(): the maximal runs of non-whitespace
\* characters, in order; k is the next character, word the run in hand.
RECURSIVE SplitFrom(_, _, _, _)
SplitFrom(text, k, word, words) ==
    LET closed == IF word = <<>> THEN words ELSE Append(words, word)
    IN  IF k > Len(text) THEN closed
        ELSE IF text[k] \in Whitespace
             THEN SplitFrom(text, k + 1, <<>>, closed)
             ELSE SplitFrom(text, k + 1, Append(word, text[k]), words)

Split(text) == SplitFrom(text, 1, <<>>, <<>>)

\* vlm_utils.py:63: ' '.join(words).
RECURSIVE Join(_)
Join(words) ==
    IF words = <<>> THEN <<>>
    ELSE IF Len(words) = 1 THEN words[1]
    ELSE words[1] \o <<" ">> \o Join(Tail(words))

\* The returned triple (is_repetitive, repeated_phrase, count).
NotRepetitive ==
    [is_repetitive |-> FALSE, repeated_phrase |-> None, count |-> 0]
Repetitive(phrase, count) ==
    [is_repetitive |-> TRUE, repeated_phrase |-> Text(phrase), count |-> count]

\* What a loop of the function comes to: no return, or a return from the
\* iteration with index i of the loop `strategy`.
NoHit == [hit |-> FALSE]
Hit(strategy, i, phrase, count) ==
    [hit |-> TRUE, strategy |-> strategy, start |-> i,
     result |-> Repetitive(phrase, count)]

\* Variant of TooShort: only a missing or empty text is rejected.
TooShortOnlyEmpty(text, min_length, threshold) ==
    text = None \/ text.text = <<>>

\* vlm_utils.py:49: `not text or len(text) < min_length * threshold`.
TooShort(text, min_length, threshold) ==
    \/ text = None
    \/ text.text = <<>>
    \/ Len(text.text) < min_length * threshold

\* vlm_utils.py:70-79: the phrases of seq_len words that follow each other
\* from pos on and equal phrase are counted.
RECURSIVE CountPhrases(_, _, _, _, _)
CountPhrases(words, phrase, seq_len, pos, repetition_count) ==
    IF /\ pos + seq_len <= Len(words)
       /\ Join(Slice(words, pos, pos + seq_len)) = phrase
    THEN CountPhrases(words, phrase, seq_len, pos + seq_len,
                      repetition_count + 1)
    ELSE repetition_count

\* vlm_utils.py:61-83: `for i in range(len(words) - seq_len * threshold)`,
\* from index i on.
RECURSIVE ScanPhrases(_, _, _, _, _)
ScanPhrases(words, seq_len, i, min_length, threshold) ==
    IF i >= Len(words) - seq_len * threshold THEN NoHit
    ELSE LET phrase == Join(Slice(words, i, i + seq_len))
             count  == CountPhrases(words, phrase, seq_len, i + seq_len, 1)
         IN  IF Len(phrase) >= min_length /\ count >= threshold
             THEN Hit("phrase", i, phrase, count)
             ELSE ScanPhrases(words, seq_len, i + 1, min_length, threshold)

\* vlm_utils.py:60: `for seq_len in range(3, min(51, len(words) // threshold
\* + 1))`, from seq_len on.
RECURSIVE PhraseLengths(_, _, _, _)
PhraseLengths(words, seq_len, min_length, threshold) ==
    IF seq_len >= Min(51, (Len(words) \div threshold) + 1) THEN NoHit
    ELSE LET found == ScanPhrases(words, seq_len, 0, min_length, threshold)
         IN  IF found.hit THEN found
             ELSE PhraseLengths(words, seq_len + 1, min_length, threshold)

\* vlm_utils.py:54-83: strategy 1, tried when the text has five words.
PhraseRepetition(text, min_length, threshold) ==
    LET words == Split(text)
    IN  IF Len(words) >= 5
        THEN PhraseLengths(words, 3, min_length, threshold)
        ELSE NoHit

\* vlm_utils.py:95-100: the copies of pattern that follow each other from
\* pos on are counted.
RECURSIVE CountPatterns(_, _, _, _, _)
CountPatterns(text, pattern, pattern_len, pos, repetition_count) ==
    IF /\ pos + pattern_len <= Len(text)
       /\ Slice(text, pos, pos + pattern_len) = pattern
    THEN CountPatterns(text, pattern, pattern_len, pos + pattern_len,
                       repetition_count + 1)
    ELSE repetition_count

\* Variant of PatternReported: one occurrence is enough.
PatternReportedAtOnce(repetition_count, threshold) == repetition_count >= 1

\* vlm_utils.py:103: a short pattern needs twice the threshold.
PatternReported(repetition_count, threshold) ==
    repetition_count >= threshold * 2

\* vlm_utils.py:88-104: `for i in range(len(text) - pattern_len *
\* threshold)`, from index i on.
RECURSIVE ScanPatterns(_, _, _, _)
ScanPatterns(text, pattern_len, i, threshold) ==
    IF i >= Len(text) - pattern_len * threshold THEN NoHit
    ELSE LET pattern == Slice(text, i, i + pattern_len)
             count   == CountPatterns(text, pattern, pattern_len,
                                      i + pattern_len, 1)
         IN  IF PatternReported(count, threshold)
             THEN Hit("pattern", i, pattern, count)
             ELSE ScanPatterns(text, pattern_len, i + 1, threshold)

\* vlm_utils.py:87: `for pattern_len in range(2, 20)`, from pattern_len on.
RECURSIVE PatternLengths(_, _, _)
PatternLengths(text, pattern_len, threshold) ==
    IF pattern_len >= 20 THEN NoHit
    ELSE LET found == ScanPatterns(text, pattern_len, 0, threshold)
         IN  IF found.hit THEN found
             ELSE PatternLengths(text, pattern_len + 1, threshold)

\* vlm_utils.py:85-104: strategy 2.
PatternRepetition(text, threshold) == PatternLengths(text, 2, threshold)

\* vlm_utils.py:117-119: the index after the run of char that starts at i.
RECURSIVE RunEnd(_, _, _)
RunEnd(text, char, j) ==
    IF j < Len(text) /\ text[j + 1] = char THEN RunEnd(text, char, j + 1)
    ELSE j

\* vlm_utils.py:110-127: `while i < len(text)`, from index i on.
RECURSIVE ScanRuns(_, _)
ScanRuns(text, i) ==
    IF i >= Len(text) THEN NoHit
    ELSE LET char == text[i + 1]
         IN  IF char \notin Whitespace
             THEN LET j == RunEnd(text, char, i + 1)
                      consecutive_count == j - i
                  IN  IF consecutive_count >= SingleCharRun
                      THEN Hit("char", i, <<char>>, consecutive_count)
                      ELSE ScanRuns(text, j)
             ELSE ScanRuns(text, i + 1)

\* vlm_utils.py:106-127: strategy 3, tried when the text has 30 characters.
CharRepetition(text) ==
    IF Len(text) >= SingleCharRun THEN ScanRuns(text, 0) ELSE NoHit

\* vlm_utils.py:49-129: the loop that returns, if one does.
Strategies(text, min_length, threshold) ==
    IF TooShort(text, min_length, threshold) THEN NoHit
    ELSE LET phrase == PhraseRepetition(text.text, min_length, threshold)
         IN  IF phrase.hit THEN phrase
             ELSE LET pattern == PatternRepetition(text.text, threshold)
                  IN  IF pattern.hit THEN pattern
                      ELSE CharRepetition(text.text)

\* vlm_utils.py:38-129.
detect_repetition_loop(text, min_length, threshold) ==
    LET found == Strategies(text, min_length, threshold)
    IN  IF found.hit THEN found.result ELSE NotRepetitive

\* The words the explored texts are made of.
Opening == <<"s", "o">>
Phrases == {<<<<"t", "h", "e">>, <<"b", "i", "g">>, <<"c", "a", "t">>>>,
            <<<<"o", "n", "e">>, <<"t", "w", "o">>, <<"s", "i", "x">>, <<"t", "e", "n">>>>,
            <<<<"h", "e", "l", "l", "o">>, <<"w", "o", "r", "l", "d", "!">>>>,
            <<<<"a", "b", "c", "d", "e", "f", "g", "h", "i", "j", "k">>>>}

\* Texts of words: an optional opening word, a phrase repeated, a second
\* phrase repeated, an optional closing word, joined by single spaces.
WordTexts ==
    {Join(pre \o Rep(phrase1, reps1) \o Rep(phrase2, reps2) \o post) :
        pre \in {<<>>, <<Opening>>}, post \in {<<>>, <<Opening>>},
        phrase1 \in Phrases, phrase2 \in Phrases,
        reps1 \in 0..MaxReps, reps2 \in 0..MaxReps}

\* Texts of characters: a run of one character, a three-character pattern
\* repeated, a shorter pattern or an ellipsis repeated, an optional last
\* character.
CharTexts ==
    {Rep(<<"a">>, run) \o Rep(<<"a", "b", "c">>, reps1) \o Rep(pattern, reps2)
         \o last :
        run \in 0..MaxRun, reps1 \in 0..MaxPatternReps,
        pattern \in {<<"x", "y">>, <<".", ".", ".", " ">>},
        reps2 \in 0..MaxPatternReps, last \in {<<>>, <<"b">>}}

\* The values of text explored: None, and the texts above.
DetectTexts == {None} \cup {Text(t) : t \in WordTexts \cup CharTexts}

\* The min_length and threshold explored: the defaults, any phrase length
\* with the default threshold, and a threshold above the run length of
\* strategy 3.
DetectArgs ==
    {[min_length |-> MIN_REPETITION_LENGTH, threshold |-> REPETITION_THRESHOLD],
     [min_length |-> 1, threshold |-> REPETITION_THRESHOLD],
     [min_length |-> 1, threshold |-> SingleCharRun + 1]}

InitDetectIdle ==
    /\ detect_text = None
    /\ detect_args = [min_length |-> MIN_REPETITION_LENGTH,
                      threshold |-> REPETITION_THRESHOLD]
    /\ detect_result = NotReturned
    /\ found_at = NoHit

InitDetect ==
    /\ detect_text \in DetectTexts
    /\ detect_args \in DetectArgs
    /\ detect_result = NotReturned
    /\ found_at = NoHit

\* One call of detect_repetition_loop.
Detect ==
    /\ detect_result = NotReturned
    /\ LET found == Strategies(detect_text, detect_args.min_length,
                               detect_args.threshold)
       IN  /\ detect_result' = detect_repetition_loop(
                                   detect_text, detect_args.min_length,
                                   detect_args.threshold)
           /\ found_at' = IF found.hit
                          THEN [hit |-> TRUE, strategy |-> found.strategy,
                                start |-> found.start]
                          ELSE NoHit
    /\ UNCHANGED <<detect_text, detect_args>>
    /\ UNCHANGED nonDetVars

NextDetect == Detect

(***************************************************************************)
(* worker/vlm_utils.py: parse_moderation_rating, on strings as sequences   *)
(* of characters.                                                          *)
(***************************************************************************)

\* Largest number of pieces a raw result is put together from.
MaxPieces == 5

\* The literals of the two regular expressions.
ThinkOpen == <<"<", "t", "h", "i", "n", "k", ">">>
ThinkClose == <<"<", "/", "t", "h", "i", "n", "k", ">">>
MarkerOpen == <<"[", "[">>
MarkerClose == <<"]", "]">>

\* \d, and int() of one digit.
Digits == {"0", "1", "2", "3", "4", "5", "6", "7", "8", "9"}
DigitValue(c) ==
    CASE c = "0" -> 0 [] c = "1" -> 1 [] c = "2" -> 2 [] c = "3" -> 3
      [] c = "4" -> 4 [] c = "5" -> 5 [] c = "6" -> 6 [] c = "7" -> 7
      [] c = "8" -> 8 [] c = "9" -> 9

\* int(digits), for a string of digits.
RECURSIVE ToInt(_)
ToInt(digits) ==
    IF digits = <<>> THEN 0
    ELSE ToInt(SubSeq(digits, 1, Len(digits) - 1)) * 10
             + DigitValue(digits[Len(digits)])

\* The literal stands in text at index i.
StartsWith(text, i, literal) == Slice(text, i, i + Len(literal)) = literal

\* The least index from i on at which the literal stands; -1 if there is none.
Find(text, literal, i) ==
    LET at == {j \in i..Len(text) : StartsWith(text, j, literal)}
    IN  IF at = {} THEN 0 - 1 ELSE MinOf(at)

\* vlm_utils.py:29: re.sub(r'<think>.*?</think>', '', raw_result,
\* flags=re.DOTALL) from index i on: at a <think> that has a </think> after
\* it, everything up to the first such </think> is dropped, line ends
\* included; any other character is kept.
RECURSIVE RemoveThink(_, _)
RemoveThink(text, i) ==
    IF i >= Len(text) THEN <<>>
    ELSE LET close == IF StartsWith(text, i, ThinkOpen)
                      THEN Find(text, ThinkClose, i + Len(ThinkOpen))
                      ELSE 0 - 1
         IN  IF close >= 0
             THEN RemoveThink(text, close + Len(ThinkClose))
             ELSE <<text[i + 1]>> \o RemoveThink(text, i + 1)

\* The index after the digits that stand in text from index j on.
RECURSIVE DigitsEnd(_, _)
DigitsEnd(text, j) ==
    IF j < Len(text) /\ text[j + 1] \in Digits THEN DigitsEnd(text, j + 1)
    ELSE j

\* r'\[\[(\d+)\]\]' matches at index i: [[, one digit or more, ]].
MarkerAt(text, i) ==
    /\ StartsWith(text, i, MarkerOpen)
    /\ DigitsEnd(text, i + 2) > i + 2
    /\ StartsWith(text, DigitsEnd(text, i + 2), MarkerClose)

\* match.group(1) of the match at index i.
MarkerDigits(text, i) == Slice(text, i + 2, DigitsEnd(text, i + 2))

\* A returned int.
Rating(n) == [kind |-> "int", value |-> n]

\* vlm_utils.py:32-35: re.search takes the leftmost match.
SearchRating(text) ==
    LET at == {i \in 0..Len(text) : MarkerAt(text, i)}
    IN  IF at = {} THEN None
        ELSE Rating(ToInt(MarkerDigits(text, MinOf(at))))

\* vlm_utils.py:16-35.
parse_moderation_rating(text) == SearchRating(RemoveThink(text, 0))

\* What the raw results explored are put together from: the two tags, two
\* whole markers, the halves of a marker, a digit, and text with a line end.
Pieces == {ThinkOpen, ThinkClose,
           <<"[", "[", "3", "]", "]">>,
           <<"[", "[", "7", "]", "]">>,
           MarkerOpen, <<"7", "]", "]">>, <<"1">>, <<"a", "\n">>}

RECURSIVE RawResults(_)
RawResults(n) ==
    IF n = 0 THEN {<<>>}
    ELSE LET shorter == RawResults(n - 1)
         IN  shorter \cup {s \o p : s \in shorter, p \in Pieces}

InitParseIdle ==
    /\ raw_result = <<>>
    /\ rating = NotReturned

InitParse ==
    /\ raw_result \in RawResults(MaxPieces)
    /\ rating = NotReturned

\* One call of parse_moderation_rating.
Parse ==
    /\ rating = NotReturned
    /\ rating' = parse_moderation_rating(raw_result)
    /\ UNCHANGED raw_result
    /\ UNCHANGED nonParseVars

NextParse == Parse

(***************************************************************************)
(* Specifications: one per part of the program, the other parts at rest.  *)
(***************************************************************************)

InitClaim ==
    /\ InitWorker
    /\ InitChatIdle
    /\ InitSrvIdle
    /\ InitRunIdle
    /\ InitBackfillIdle
    /\ InitStoreIdle
    /\ InitPixaiIdle
    /\ InitTwitterIdle
    /\ InitDetectIdle
    /\ InitParseIdle

SpecClaim == InitClaim /\ [][NextClaim]_vars

InitChatCall ==
    /\ InitWorker
    /\ InitChat
    /\ InitSrvIdle
    /\ InitRunIdle
    /\ InitBackfillIdle
    /\ InitStoreIdle
    /\ InitPixaiIdle
    /\ InitTwitterIdle
    /\ InitDetectIdle
    /\ InitParseIdle

SpecChat == InitChatCall /\ [][NextChat]_vars

InitServer ==
    /\ InitWorker
    /\ InitChatIdle
    /\ InitSrv
    /\ InitRunIdle
    /\ InitBackfillIdle
    /\ InitStoreIdle
    /\ InitPixaiIdle
    /\ InitTwitterIdle
    /\ InitDetectIdle
    /\ InitParseIdle

SpecServer == InitServer /\ [][NextSrv]_vars

InitRunCall ==
    /\ InitWorker
    /\ InitChatIdle
    /\ InitSrvIdle
    /\ InitRun
    /\ InitBackfillIdle
    /\ InitStoreIdle
    /\ InitPixaiIdle
    /\ InitTwitterIdle
    /\ InitDetectIdle
    /\ InitParseIdle

SpecRun == InitRunCall /\ [][NextRun]_vars

InitBackfillCall ==
    /\ InitWorker
    /\ InitChatIdle
    /\ InitSrvIdle
    /\ InitRunIdle
    /\ InitBackfill
    /\ InitStoreIdle
    /\ InitPixaiIdle
    /\ InitTwitterIdle
    /\ InitDetectIdle
    /\ InitParseIdle

SpecBackfill == InitBackfillCall /\ [][NextBackfill]_vars

\* run_backfill is one sequential process: while it has a step to take, it
\* takes it.
SpecBackfillFair ==
    InitBackfillCall /\ [][NextBackfill]_vars /\ WF_vars(NextBackfill)

InitStoreCall ==
    /\ InitWorker
    /\ InitChatIdle
    /\ InitSrvIdle
    /\ InitRunIdle
    /\ InitBackfillIdle
    /\ InitStore
    /\ InitPixaiIdle
    /\ InitTwitterIdle
    /\ InitDetectIdle
    /\ InitParseIdle

SpecStore == InitStoreCall /\ [][NextStore]_vars

InitPixaiCall ==
    /\ InitWorker
    /\ InitChatIdle
    /\ InitSrvIdle
    /\ InitRunIdle
    /\ InitBackfillIdle
    /\ InitStoreIdle
    /\ InitPixai
    /\ InitTwitterIdle
    /\ InitDetectIdle
    /\ InitParseIdle

SpecPixai == InitPixaiCall /\ [][NextPixai]_vars

\* One call of either script that takes a max_images argument: run_backfill
\* or backfill_pixai_tags.
InitMaxImagesCall == InitBackfillCall \/ InitPixaiCall

NextMaxImages == NextBackfill \/ NextPixai

SpecMaxImages == InitMaxImagesCall /\ [][NextMaxImages]_vars

InitTwitterCall ==
    /\ InitWorker
    /\ InitChatIdle
    /\ InitSrvIdle
    /\ InitRunIdle
    /\ InitBackfillIdle
    /\ InitStoreIdle
    /\ InitPixaiIdle
    /\ InitTwitter
    /\ InitDetectIdle
    /\ InitParseIdle

SpecTwitter == InitTwitterCall /\ [][NextTwitter]_vars

InitDetectCall ==
    /\ InitWorker
    /\ InitChatIdle
    /\ InitSrvIdle
    /\ InitRunIdle
    /\ InitBackfillIdle
    /\ InitStoreIdle
    /\ InitPixaiIdle
    /\ InitTwitterIdle
    /\ InitDetect
    /\ InitParseIdle

SpecDetect == InitDetectCall /\ [][NextDetect]_vars

InitParseCall ==
    /\ InitWorker
    /\ InitChatIdle
    /\ InitSrvIdle
    /\ InitRunIdle
    /\ InitBackfillIdle
    /\ InitStoreIdle
    /\ InitPixaiIdle
    /\ InitTwitterIdle
    /\ InitDetectIdle
    /\ InitParse

SpecParse == InitParseCall /\ [][NextParse]_vars

(***************************************************************************)
(* Properties of the claim transaction and of onImageCreated (SpecClaim)   *)
(***************************************************************************)

\* The batch an invocation's transaction returned.
Claimed(p) == Range(pending_images[p])

\* The invocation's transaction has committed.
Committed(p) == txStarted[p]

\* C1: the batches claimed by two invocations of onImageCreated are
\* disjoint: no document is flipped from pending to processing by both
\* transactions.
C1_ClaimsDisjoint ==
    \A p, q \in Invocations : p # q => Claimed(p) \cap Claimed(q) = {}

\* Both invocations committed and each claimed at least one document.
C1_Witness ==
    \A p \in Invocations : Committed(p) /\ Claimed(p) # {}

\* C2: every image is run through inference by at most one invocation.
C2_InferredByOneInvocation ==
    \A i \in Images : Cardinality(inferredBy[i]) <= 1

\* C3: an invocation whose count query read fewer than Threshold pending
\* documents returns at once: it starts no transaction, claims nothing and
\* updates no document.
C3_BelowThresholdNoClaim ==
    \A p \in Invocations :
        (pc[p] # "start" /\ pending_count[p] < Threshold) =>
            /\ pc[p] = "returned"
            /\ ~txStarted[p]
            /\ pending_images[p] = <<>>
            /\ written[p] = {}

\* An invocation returned on a non-empty backlog below the threshold, and
\* the backlog is still pending.
C3_Witness ==
    \E p \in Invocations :
        /\ pc[p] = "returned"
        /\ pending_count[p] = Threshold - 1
        /\ Cardinality(WhereStatus(status, "pending")) = pending_count[p]

\* Two invocations passed the threshold check on the same pending set, no
\* document was created since, and both transactions have committed.
BothClaimedSameBacklog(p, q) ==
    /\ p # q
    /\ Committed(p) /\ Committed(q)
    /\ Cardinality(pendingSeen[p]) >= Threshold
    /\ pendingSeen[p] = pendingSeen[q]

\* C4: when two invocations pass the threshold check on the same pending set
\* and no document is added meanwhile, the union of their two batches is that
\* set, and once both transactions have committed none of its documents is
\* still pending.
C4_UnionIsBacklog ==
    \A p, q \in Invocations :
        BothClaimedSameBacklog(p, q) =>
            /\ Claimed(p) \cup Claimed(q) = pendingSeen[p]
            /\ \A i \in pendingSeen[p] : status[i] # "pending"

C4_Witness ==
    \E p, q \in Invocations : BothClaimedSameBacklog(p, q)

\* C5: a failure on one claimed item never stops the batch: when the
\* invocation has ended, none of the documents it claimed is left in
\* processing and the invocation was not ended by an exception.
C5_BatchAlwaysCompleted ==
    \A p \in Invocations :
        Ended(p) =>
            /\ pc[p] # "raised"
            /\ \A i \in Claimed(p) : status[i] \in {"inferred", "error"}

\* C6: the status error is terminal: no step changes the status of a
\* document that is in error.
C6_ErrorIsTerminal ==
    [][\A i \in Images : status[i] = "error" => status'[i] = "error"]_vars

\* C7: a document whose status has left pending is never set to pending
\* again.
C7_NeverReleased ==
    [][\A i \in Images :
          status[i] \in {"processing", "inferred", "error"} =>
              status'[i] # "pending"]_vars

\* A claimed item failed and was marked error by the invocation that claimed
\* it, and that invocation has ended.
C7_Witness ==
    \E p \in Invocations : \E i \in Claimed(p) :
        pc[p] = "done" /\ status[i] = "error"

\* C33: the threshold holds for every claim: whenever the transaction of an
\* invocation flips a non-empty set of documents to processing, that set has
\* at least Threshold documents, whatever other invocations and arrivals do
\* between the count query and the transaction.
C33_ClaimedBatchAtThreshold ==
    [][\A p \in Invocations :
          (pc[p] = "claim" /\ pc'[p] = "snapshot" /\ pending_images'[p] # <<>>) =>
              Len(pending_images'[p]) >= Threshold]_vars

\* C35: an invocation writes the status only of documents of its own batch
\* and of documents that were processing in the snapshot it took right after
\* its claim; it writes no document that another invocation claimed later.
C35_WritesOnlyOwnedItems ==
    \A p \in Invocations :
        written[p] \subseteq (Claimed(p) \cup processing_image_ids[p])

(***************************************************************************)
(* Properties of chat_with_image_llama_api (SpecChat)                      *)
(***************************************************************************)

TransportFailures == {"bad_status", "exception"}

\* Every request issued so far came back with content that the detector
\* flagged as repetitive.
AllRepetitive ==
    /\ Len(responses) = Len(sent)
    /\ \A k \in 1..Len(responses) : responses[k] = "repetitive"

\* C8: with max_retries >= 1, when every request succeeds with content and
\* every response is flagged repetitive, the call issues exactly max_retries
\* requests and returns the (stripped) content of the last response, not None.
C8_RepetitiveReturnsLast ==
    (chat_pc = "done" /\ max_retries >= 1 /\ Len(sent) >= 1 /\ AllRepetitive) =>
        /\ Len(sent) = max_retries
        /\ chat_result.kind = "text"
        /\ chat_result.text.body = last_content.body
        /\ ~chat_result.text.padded

\* A call with several attempts ended after replies that were all repetitive.
C8_Witness ==
    chat_pc = "done" /\ max_retries >= 3 /\ Len(sent) >= 1 /\ AllRepetitive

\* C9: a transport failure (non-200 status, exception, timeout) on any
\* attempt ends the call with None, and no request is issued after it.
C9_TransportFailureEndsCall ==
    \A k \in 1..Len(responses) :
        responses[k] \in TransportFailures =>
            /\ k = Len(sent)
            /\ chat_pc = "done"
            /\ chat_result = None

\* A retry (not the first request) failed while attempts remained.
C9_Witness ==
    \E k \in 1..Len(responses) :
        /\ responses[k] \in TransportFailures
        /\ k >= 2
        /\ k < max_retries

\* C10: the request of attempt k (k = 0, 1, ...) carries temperature
\* min(70 + 5k, 100) and top_p min(80 + 5k, 95), in hundredths; each value
\* is strictly larger than that of the attempt before until it has reached
\* its ceiling, and never exceeds the ceiling.
C10_SamplingSchedule ==
    \A n \in 1..Len(sent) :
        /\ sent[n].temperature = (IF 70 + 5 * (n - 1) < 100
                                     THEN 70 + 5 * (n - 1) ELSE 100)
        /\ sent[n].top_p = (IF 80 + 5 * (n - 1) < 95
                               THEN 80 + 5 * (n - 1) ELSE 95)
        /\ sent[n].temperature <= 100
        /\ sent[n].top_p <= 95
        /\ n > 1 =>
            /\ sent[n - 1].temperature < 100 =>
                   sent[n].temperature > sent[n - 1].temperature
            /\ sent[n - 1].top_p < 95 => sent[n].top_p > sent[n - 1].top_p

\* Enough attempts were made for both parameters to sit at their ceilings
\* on two requests in a row.
C10_Witness ==
    /\ Len(sent) >= 2
    /\ sent[Len(sent)].temperature = 100
    /\ sent[Len(sent) - 1].temperature = 100
    /\ sent[Len(sent)].top_p = 95

\* C31: every request after the first follows a reply that was received with
\* content and flagged repetitive, and the retry pause; a reply with content
\* that is not flagged ends the call with the text of that reply.
C31_RetryOnlyAfterRepetition ==
    /\ [](\A n \in 2..Len(sent) : responses[n - 1] = "repetitive")
    /\ [][chat_pc = "wait" => chat_pc' \in {"sleep", "done"}]_vars
    /\ [](\A k \in 1..Len(responses) :
            responses[k] = "clean" =>
                /\ k = Len(sent)
                /\ chat_pc = "done"
                /\ chat_result = Text(Strip(last_content)))

(***************************************************************************)
(* Properties of the server lifecycle (SpecServer)                         *)
(***************************************************************************)

\* The step names of stop_log, in order.
StopStepNames == [k \in 1..Len(stop_log) |-> stop_log[k].step]

IsPrefix(s, t) ==
    /\ Len(s) <= Len(t)
    /\ \A k \in 1..Len(s) : s[k] = t[k]

\* C13: stop_server signals the process group (and the process) first, then
\* waits at most 10 seconds for the exit, force-kills only when the process
\* was still alive after the full 10 seconds, sleeps 3 seconds last, and the
\* process has exited by the time of that sleep and of the return.
C13_StopOrder ==
    /\ \/ IsPrefix(StopStepNames,
                   <<"sigterm_group", "terminate", "wait", "sleep">>)
       \/ IsPrefix(StopStepNames,
                   <<"sigterm_group", "terminate", "wait", "kill", "sleep">>)
    /\ \A k \in 1..Len(stop_log) :
          /\ stop_log[k].step = "wait" => stop_log[k].seconds <= StopWaitSeconds
          /\ stop_log[k].step = "kill" =>
                /\ stop_log[k-1].alive
                /\ stop_log[k-1].seconds = StopWaitSeconds
          /\ stop_log[k].step = "sleep" =>
                /\ ~stop_log[k].alive
                /\ stop_log[k].seconds = PortReleaseSleep
    /\ (srv_pc = "stopped" /\ process # "None") =>
          /\ process = "exited"
          /\ Len(stop_log) >= 4
          /\ stop_log[Len(stop_log)].step = "sleep"

\* stop_server has returned after a force-kill.
C13_Witness ==
    /\ srv_pc = "stopped"
    /\ Len(stop_log) = 5
    /\ stop_log[4].step = "kill"
    /\ process = "exited"

\* C14: the first health poll is issued exactly when the 5-second grace delay
\* is over, each later poll 2 seconds after the previous one came back, and
\* every poll before the timeout; the call returns True exactly when a poll
\* received status 200, and False exactly when the timeout elapsed with no
\* such poll, a failed connection being one more unsuccessful poll.
C14_WaitForServer ==
    /\ \A k \in 1..Len(polls) :
          /\ polls[k].at >= GraceDelay
          /\ polls[k].at < wait_timeout
          /\ k = 1 => polls[k].at = GraceDelay
          /\ k > 1 => /\ polls[k].at = polls[k-1].done + PollInterval
                      /\ polls[k-1].result \in {"503", "exception"}
    /\ wait_result \in {"running", "True", "False"}
    /\ wait_result = "True" <=>
          (\E k \in 1..Len(polls) : polls[k].result = "200")
    /\ wait_result = "False" =>
          /\ wait_elapsed >= wait_timeout
          /\ \A k \in 1..Len(polls) : polls[k].result \in {"503", "exception"}
    /\ srv_pc \in {"stop_call", "stop_terminate", "stop_wait", "stop_kill",
                   "stop_sleep", "stopped"} /\ process # "None"
          => wait_result \in {"True", "False"}

\* The server answered 200 on its third poll, after a refused connection and
\* a poll that found the model still loading.
C14_Witness ==
    /\ wait_result = "True"
    /\ Len(polls) = 3
    /\ polls[1].result = "exception"
    /\ polls[2].result = "503"

(***************************************************************************)
(* Properties of run_vlm_captioner and its drivers (SpecRun)               *)
(***************************************************************************)

\* The driver of model m started a server and has left its try block, or
\* has returned, in the way `kind`.
LeftTry(m, kind) ==
    \/ exits[m] = kind
    \/ model_key = m /\ drv_pc = "return" /\ drv_exit = kind

\* C11: once start_llama_server has handed a process to a driver, the driver
\* does not reach its return (nor hand an exception to its caller) without
\* having called stop_server on that process, whether the server never
\* became ready, an item raised, or the loop ran to its end.
C11_StopOnEveryExit ==
    \A m \in Drivers :
        \A kind \in {"not_ready", "exception", "completed"} :
            LeftTry(m, kind) => stop_calls[m] = 1

\* One run in which a driver left because its server never became ready and
\* the other because an item raised; both servers were stopped.
C11_Witness ==
    /\ exits["joycaption"] = "not_ready"
    /\ exits["minicpm"] = "exception"
    /\ stop_calls["joycaption"] = 1
    /\ stop_calls["minicpm"] = 1
    /\ run_pc = "raised"

\* C12: at most one server process of the run is alive at a time, and when a
\* driver is about to call start_llama_server every process an earlier driver
\* started has been stopped and has exited.
C12_OneServerAlive ==
    /\ Cardinality({m \in Drivers : server_process[m] = "alive"}) <= 1
    /\ drv_pc = "start" =>
          \A m \in Drivers :
              /\ server_process[m] # "alive"
              /\ server_process[m] = "exited" => stop_calls[m] = 1

\* The second driver's server is up after the first driver, whose server was
\* still alive when its loop ended, has stopped its own.
C12_Witness ==
    /\ exits["joycaption"] = "completed"
    /\ saved = {<<"joycaption", i, slot>> :
                    i \in ImagePaths, slot \in {"captions", "moderations"}}
    /\ server_process["joycaption"] = "exited"
    /\ stop_calls["joycaption"] = 1
    /\ model_key = "minicpm"
    /\ server_process["minicpm"] = "alive"

\* C15: when wait_for_server returned False for a driver, its process is
\* stopped, the driver issued no generation request and persisted nothing,
\* and no server is started for a model that comes later in the run.
C15_NotReadyAbortsRun ==
    \A k \in 1..Len(DriverOrder) :
        exits[DriverOrder[k]] = "not_ready" =>
            /\ stop_calls[DriverOrder[k]] = 1
            /\ server_process[DriverOrder[k]] = "exited"
            /\ \A r \in requests : r[1] # DriverOrder[k]
            /\ \A r \in saved : r[1] # DriverOrder[k]
            /\ \A j \in (k+1)..Len(DriverOrder) :
                   server_process[DriverOrder[j]] = "None"

\* C16: an item whose generation returned None in a driver has its status
\* set to "error".
C16_TransportErrorMarksError ==
    \A f \in failed : doc_status[f[2]] = "error"

C38_CaptionAndModerationTogether ==
    \A m \in Drivers : \A i \in ImagePaths :
        /\ <<m, i, "captions">> \in saved <=> <<m, i, "moderations">> \in saved
        /\ <<m, i, "captions">> \in saved =>
               /\ <<m, i, "caption">> \in requests
               /\ <<m, i, "moderation">> \in requests
               /\ <<m, i>> \notin failed
        /\ <<m, i>> \in failed =>
               /\ <<m, i, "captions">> \notin saved
               /\ <<m, i, "moderations">> \notin saved

\* One item's moderation failed after its caption had been generated, and
\* another item of the same driver was saved.
C38_Witness ==
    \E m \in Drivers : \E i \in ImagePaths : \E j \in ImagePaths :
        /\ <<m, i, "moderation">> \in requests
        /\ <<m, i>> \in failed
        /\ <<m, j, "captions">> \in saved
        /\ <<m, j, "moderations">> \in saved

(***************************************************************************)
(* Properties of run_backfill (SpecBackfill)                               *)
(***************************************************************************)

\* C17: a document whose age estimation came back as text that the parser
\* rejected holds that text, with a null parsed result, in its slot for the
\* age model.
C17_RawOutputRetained ==
    \A d \in parse_failed : ageEstimations[d][age_model] = "raw_only"

\* C18: a slot that a document already holds under the age model key of the
\* run is not written again: no step of run_backfill changes its content.
C18_ExistingSlotUntouched ==
    [][\A d \in Docs :
          ageEstimations[d][age_model] = "old" =>
              ageEstimations'[d][age_model] = "old"]_vars

\* C23: what get_images_without_age_estimation(limit) hands to run_backfill:
\* at most limit documents, in fetch order, out of at most limit*3 examined,
\* none examined beyond the one that completed the list, each with a caption
\* of the caption model and without an age estimation under the age model
\* key of the run.
C23_FetchedImages ==
    [][(bf_pc = "while" /\ bf_pc' = "for") =>
          /\ Len(images') <= fetch_limit'
          /\ Examined(captions, ageEstimations, fetch_limit') <= fetch_limit' * 3
          /\ \A j \in 1..Len(images') : \A k \in 1..Len(images') :
                 j < k => images'[j] < images'[k]
          /\ Len(images') = fetch_limit' =>
                 Examined(captions, ageEstimations, fetch_limit')
                     = images'[Len(images')]
          /\ \A k \in 1..Len(images') :
                 /\ captions[images'[k]]
                 /\ ageEstimations[images'[k]][age_model] = "absent"]_vars

(***************************************************************************)
(* Properties of the writers of one document (SpecStore)                   *)
(***************************************************************************)

\* C19: the write of a saver that persists a result for model key m leaves
\* every slot stored under another model key as it was just before the
\* write, also when the other saver has written since this saver's read.
C19_OtherSlotsUntouched ==
    [][\A s \in Savers :
          (saver_pc[s] # "written" /\ saver_pc'[s] = "written") =>
              \A path \in SlotPaths :
                  path[2] # saver_key'[s] => document'[path] = document[path]]_vars

(***************************************************************************)
(* Properties of backfill_pixai_tags (SpecPixai)                           *)
(***************************************************************************)

\* C20: after exactly one interrupt that arrived while a file was in hand,
\* no later file is taken up, and once the loop is over that file has been
\* brought to its end: its tags are saved, unless they existed and were to
\* be skipped or its own tagging or Firestore access raised.
C20_FinishCurrentThenStop ==
    (interrupts = 1 /\ signal_item # 0) =>
        /\ image_file <= signal_item + 1
        /\ InHand => image_file = signal_item
        /\ \A f \in Files : f > signal_item => file_outcome[f] = "none"
        /\ px_pc \in {"finally", "finally_raised", "returned", "raised",
                      "exited"} =>
              /\ file_outcome[signal_item] \in
                     {"saved", "skipped", "error", "raised"}
              /\ file_outcome[signal_item] = "saved" =>
                     tags[signal_item] = "new"
              /\ file_outcome[signal_item] = "skipped" =>
                     tags[signal_item] = "old"

\* The interrupt came during the first file; its tags were saved and the run
\* returned without touching the second file.
C20_Witness ==
    /\ interrupts = 1
    /\ signal_item = 1
    /\ px_pc = "returned"
    /\ file_outcome[1] = "saved"
    /\ tags[1] = "new"
    /\ file_outcome[2] = "none"
    /\ px_max_images = 0

\* C34: with max_images unset, run_backfill leaves its fetch loop, stops the
\* server and returns, whatever the outcomes of the attempts and whichever
\* model key age_model names: no document is fetched and attempted again
\* for ever.
C34_RunBackfillTerminates ==
    (max_images = 0) => <>(bf_pc = "returned")

(***************************************************************************)
(* Properties of the max_images argument, checked under SpecMaxImages.     *)
(***************************************************************************)

\* Documents whose PixAI tags were written by this run.
Persisted == {f \in Files : tags[f] = "new"}

\* C37: a max_images bound is never exceeded: run_backfill attempts at most
\* max_images documents over all its fetch batches, failed attempts and an
\* attempt that raised included, and backfill_pixai_tags counts and persists
\* at most max_images files.
C37_MaxImagesNeverExceeded ==
    /\ max_images # 0 =>
          total_processed + (IF bf_exit = "exception" THEN 1 ELSE 0)
              <= max_images
    /\ px_max_images # 0 =>
          /\ processed_count <= px_max_images
          /\ Cardinality(Persisted) <= px_max_images

\* run_backfill stopped at max_images after two fetch batches of one
\* document, one attempt left an answer that could not be parsed, and a
\* document is still selectable.
C37_Witness ==
    /\ bf_pc = "returned"
    /\ bf_exit = "completed"
    /\ max_images = 2
    /\ batch_size = 1
    /\ total_processed = max_images
    /\ parse_failed # {}
    /\ \E d \in Docs : Eligible(captions, ageEstimations, d)

(***************************************************************************)
(* Properties of backfill_twitter_source_data, checked under SpecTwitter.  *)
(***************************************************************************)

\* C21: in a dry run backfill_twitter_source_data queues no update and
\* commits no batch, whatever limit and batch_size are, and every document's
\* field source is what it was before the run.
C21_DryRunMutatesNothing ==
    tw_args.dry_run =>
        /\ tw_batch = <<>>
        /\ commits = <<>>
        /\ \A d \in TwitterDocs : source[d] = SourceBefore(tw_docs[d])

\* A finished dry run that selected two documents for an update.
C21_Witness ==
    /\ tw_args.dry_run
    /\ tw_pc = "done"
    /\ updated_count >= 2

\* C22: every committed batch holds at most 500 mutations (BatchLimit at the
\* model's scale) and at most batch_size, for every batch_size, and no batch
\* that has reached batch_size is left uncommitted after an iteration.
C22_BatchesChunked ==
    /\ \A k \in 1..Len(commits) :
          /\ Len(commits[k]) <= BatchLimit
          /\ Len(commits[k]) <= tw_args.batch_size
    /\ Len(tw_batch) > 0 => Len(tw_batch) < tw_args.batch_size

\* The number of mutations in a sequence of committed batches.
RECURSIVE Mutations(_)
Mutations(cs) == IF cs = <<>> THEN 0 ELSE Len(Head(cs)) + Mutations(Tail(cs))

\* C36: in a run that is not dry and has returned, the mutations of all
\* committed batches together are as many as the documents counted as
\* updated and nothing is left queued, also when the loop was left at the
\* limit; and with a limit given, updated_count never exceeds it.
C36_NoQueuedUpdateLost ==
    /\ (~tw_args.dry_run /\ tw_pc = "done") =>
          /\ Mutations(commits) = updated_count
          /\ tw_batch = <<>>
          /\ Cardinality({d \in TwitterDocs : source[d] = "written"})
                 = updated_count
    /\ tw_args.limit # 0 => updated_count <= tw_args.limit

\* A run that left the loop at the limit with documents still unread, after
\* one batch committed in the loop and a smaller one committed at the end.
C36_Witness ==
    /\ ~tw_args.dry_run
    /\ tw_pc = "done"
    /\ tw_args.limit # 0
    /\ updated_count = tw_args.limit
    /\ tw_processed < NumTwitterDocs
    /\ Len(commits) = 2
    /\ Len(commits[2]) < tw_args.batch_size

(***************************************************************************)
(* Properties of detect_repetition_loop, checked under SpecDetect.         *)
(***************************************************************************)

Returned == detect_result # NotReturned

\* The copies of the n-gram at word index i follow each other `times` times.
PhraseRunAt(words, n, i, times) ==
    /\ i + n * times <= Len(words)
    /\ \A r \in 1..(times - 1) :
          Slice(words, i + r * n, i + (r + 1) * n) = Slice(words, i, i + n)

\* The n characters at index i follow each other `times` times.
PatternRunAt(text, n, i, times) ==
    /\ i + n * times <= Len(text)
    /\ \A r \in 1..(times - 1) :
          Slice(text, i + r * n, i + (r + 1) * n) = Slice(text, i, i + n)

\* A text that is one non-whitespace character, repeated.
OneCharacter(text) ==
    /\ Len(text) >= 1
    /\ text[1] \notin Whitespace
    /\ \A k \in 1..Len(text) : text[k] = text[1]

\* C24: for a text that is one non-whitespace character c repeated n times,
\* n >= 30 and n >= min_length * threshold, the call returns repetitive with
\* pattern c and count n.
C24_SingleCharacterText ==
    (/\ Returned
     /\ detect_text # None
     /\ OneCharacter(detect_text.text)
     /\ Len(detect_text.text) >= SingleCharRun
     /\ Len(detect_text.text) >= detect_args.min_length * detect_args.threshold)
    => detect_result = Repetitive(<<detect_text.text[1]>>, Len(detect_text.text))

\* C25: a text of five words or more in which an n-gram of words, with
\* 3 <= n <= min(50, wordCount / threshold) and min_length characters or
\* more, follows itself threshold times is reported repetitive, wherever the
\* run lies, the end of the text included.
C25_PhraseRunDetected ==
    (/\ Returned
     /\ detect_text # None
     /\ LET words == Split(detect_text.text)
        IN  /\ Len(words) >= 5
            /\ \E n \in 3..Min(50, Len(words) \div detect_args.threshold) :
               \E i \in 0..(Len(words) - 1) :
                  /\ Len(Join(Slice(words, i, i + n))) >= detect_args.min_length
                  /\ PhraseRunAt(words, n, i, detect_args.threshold))
    => detect_result.is_repetitive

\* C26: a text that is a phrase of min_length characters or more repeated
\* threshold times or more, separated by whitespace, is reported repetitive
\* whatever the number of words of the phrase.
C26_RepeatedPhraseDetected ==
    (/\ Returned
     /\ detect_text # None
     /\ LET words == Split(detect_text.text)
        IN  \E n \in 1..Len(words) :
               /\ Len(words) % n = 0
               /\ Len(words) \div n >= detect_args.threshold
               /\ Len(Join(Slice(words, 0, n))) >= detect_args.min_length
               /\ PhraseRunAt(words, n, 0, Len(words) \div n))
    => detect_result.is_repetitive

\* C27: for a text that is None, empty or shorter than min_length *
\* threshold characters, the call returns (False, None, 0).
C27_ShortTextNotRepetitive ==
    (/\ Returned
     /\ \/ detect_text = None
        \/ Len(detect_text.text) < detect_args.min_length * detect_args.threshold)
    => detect_result = NotRepetitive

\* One character repeated, one character short of min_length * threshold.
C27_Witness ==
    /\ Returned
    /\ detect_text # None
    /\ OneCharacter(detect_text.text)
    /\ Len(detect_text.text) + 1 = detect_args.min_length * detect_args.threshold
    /\ detect_args.min_length = MIN_REPETITION_LENGTH

\* The reported pattern stands count times back-to-back in the text, from
\* the index at which the returning loop found it: in the words of the text
\* for a phrase, in its characters otherwise.
ReportedRunInText ==
    LET p == detect_result.repeated_phrase.text
        k == detect_result.count
    IN  IF found_at.strategy = "phrase"
        THEN Slice(Split(detect_text.text), found_at.start,
                   found_at.start + Len(Split(p)) * k) = Rep(Split(p), k)
        ELSE Slice(detect_text.text, found_at.start,
                   found_at.start + Len(p) * k) = Rep(p, k)

QualifiesPhrase(words, n, i, min_length, threshold) ==
    /\ Len(words) >= 5
    /\ n \in 3..Min(50, Len(words) \div threshold)
    /\ Len(Join(Slice(words, i, i + n))) >= min_length
    /\ PhraseRunAt(words, n, i, threshold)

QualifiesPattern(text, n, i, threshold) ==
    /\ n \in 2..19
    /\ PatternRunAt(text, n, i, threshold * 2)

QualifiesChar(text, i) ==
    /\ i < Len(text)
    /\ text[i + 1] \notin Whitespace
    /\ PatternRunAt(text, 1, i, SingleCharRun)

\* C29: the strategies are tried in the order phrase, pattern, character, so
\* nothing qualifies under a strategy that comes before the reporting one;
\* and within the reporting strategy no qualifying pattern, of any length,
\* starts before the reported one.
C29_EarliestStartWins ==
    (Returned /\ found_at.hit) =>
        LET text  == detect_text.text
            words == Split(text)
            m     == detect_args.min_length
            th    == detect_args.threshold
            anyPhrase(before) ==
                \E n \in 3..50 : \E i \in 0..(before - 1) :
                    QualifiesPhrase(words, n, i, m, th)
            anyPattern(before) ==
                \E n \in 2..19 : \E i \in 0..(before - 1) :
                    QualifiesPattern(text, n, i, th)
            anyChar(before) ==
                \E i \in 0..(before - 1) : QualifiesChar(text, i)
        IN  CASE found_at.strategy = "phrase" ->
                    ~anyPhrase(found_at.start)
              [] found_at.strategy = "pattern" ->
                    ~anyPhrase(Len(words)) /\ ~anyPattern(found_at.start)
              [] found_at.strategy = "char" ->
                    /\ ~anyPhrase(Len(words))
                    /\ ~anyPattern(Len(text))
                    /\ ~anyChar(found_at.start)

(***************************************************************************)
(* Properties of parse_moderation_rating, checked under SpecParse.         *)
(***************************************************************************)

\* The <think>...</think> blocks of text from index i on, as pairs of the
\* index of the block's first character and the index after its last.
RECURSIVE ThinkBlocks(_, _)
ThinkBlocks(text, i) ==
    IF i >= Len(text) THEN {}
    ELSE LET close == IF StartsWith(text, i, ThinkOpen)
                      THEN Find(text, ThinkClose, i + Len(ThinkOpen))
                      ELSE 0 - 1
         IN  IF close >= 0
             THEN {<<i, close + Len(ThinkClose)>>}
                      \cup ThinkBlocks(text, close + Len(ThinkClose))
             ELSE ThinkBlocks(text, i + 1)

\* The [[N]] markers of text that lie outside every think block, by index.
MarkersOutside(text) ==
    {i \in 0..Len(text) :
        /\ MarkerAt(text, i)
        /\ \A b \in ThinkBlocks(text, 0) :
              \/ DigitsEnd(text, i + 2) + Len(MarkerClose) <= b[1]
              \/ b[2] <= i}

\* C30: the call returns the number of the first [[N]] marker of raw_result
\* that lies outside every <think>...</think> block, and None when there is
\* no such marker.
C30_FirstMarkerOutsideThink ==
    rating # NotReturned =>
        LET outside == MarkersOutside(raw_result)
        IN  IF outside = {} THEN rating = None
            ELSE rating = Rating(ToInt(MarkerDigits(raw_result, MinOf(outside))))

====
